---- MODULE Spec2Model ----
(***************************************************************************)
(* Model of the repository-analysis and retrieval pipeline of git_chatbot: *)
(*   - GitHubService (src/src/github_service.py): branch verification,     *)
(*     the rate-limited content fetcher and the three concurrent analysis  *)
(*     tasks of analyze_repository;                                        *)
(*   - QdrantManager / EmbeddingsManager (src/src/vector_store): point     *)
(*     ids, batched upserts, the read/write locks and search;              *)
(*   - ChatService (src/src/chat_service.py): the request lock, the        *)
(*     spacing wait and the retry loop of generate_response;               *)
(*   - CodeProcessor (src/src/vector_store/code_processor.py): dispatch    *)
(*     and the generic fixed-window chunker.                               *)
(* Coroutines run on one asyncio event loop: a task runs until it really   *)
(* suspends (a contended lock, asyncio.sleep, run_in_executor); acquiring  *)
(* a free asyncio.Lock or Semaphore does not suspend.                      *)
(***************************************************************************)
EXTENDS Integers, Sequences, FiniteSets, TLC

VARIABLES
    \* ---- shared wall clock (time.time())
    now,
    \* ---- GitHubService and the repository host
    head,                 \* host: branch name -> commit SHA of its head
    fresh,                \* host: next unused commit SHA
    current_commit_sha,   \* self._current_commit_sha (0 is None)
    last_request_time,    \* self._last_request_time
    lock_holder,          \* self._request_lock: the task holding it
    lock_waiters,         \* self._request_lock: FIFO of suspended acquirers
    content_cache,        \* self._content_cache: set of entries
    gpc,                  \* position of each analysis task
    gwake,                \* wake-up time of a task in asyncio.sleep
    greq,                 \* path each task asks for next
    gref,                 \* commit the host serves to the request in flight
    run,                  \* the current analyze_repository call
    frames,               \* process_contents recursion: remaining items per level
    structure,            \* structure dict of _analyze_repository_structure
    deps_i,               \* index into the dependency file lists
    dependencies,         \* names of dependency files found
    readme_i,             \* index into readme_paths
    readme,               \* README path that resolved ("" is None)
    run_commits,          \* commits served to the content requests of the current run
    branch_lookups,       \* repo.get_branch calls of the current run
    last_call,            \* start time of the latest repo.get_contents call (-1: none)
    call_gap,             \* time between the starts of the latest two calls (-1: none)
    tg,                   \* the latest direct call of tracked_get_contents
    \* ---- QdrantManager / EmbeddingsManager and the vector index
    salt,                 \* the interpreter's string-hash seed (PYTHONHASHSEED)
    index,                \* the collection: a set of points, one per point id
    write_holder,         \* self._write_lock
    write_waiters,
    read_holder,          \* self._read_lock
    read_waiters,
    sem,                  \* free slots of self._operation_semaphore
    running,              \* the task the event loop is running (NoTask: none)
    ipc,                  \* position of each task
    iop,                  \* the call each task is in: its arguments and locals
    ops,                  \* number of calls started
    upserted,             \* (chunk text, point id) of every point process_repository stored
    result,               \* what the latest search_code of each task returned
    \* ---- ChatService
    chat_last_request_time,  \* self._last_request_time
    chat_lock_holder,        \* self._request_lock: the task holding it
    chat_lock_waiters,       \* self._request_lock: FIFO of suspended acquirers
    chat_running,            \* the task the event loop is running (NoTask: none)
    cpc,                     \* position of each generate_response call
    attempt,                 \* loop variable `attempt` of each call
    cwake,                   \* wake-up time of a call in asyncio.sleep
    outcomes,                \* outcome of every model request of the call, in order
    waits,                   \* wait_time of every retry of the call, in order
    cresult,                 \* how the latest call of each task ended
    calls,                   \* number of generate_response calls started
    last_repo_info,          \* self._last_repo_info
    issued,                  \* the arguments of each call and the latest model requests
    \* ---- CodeProcessor.process_file
    pf_state,                \* "idle", "called" or "returned"
    file_path,               \* argument file_path: a string, as a sequence of characters
    content,                 \* argument content: a string, as a sequence of characters
    chunks,                  \* the list process_file returned
    \* ---- ContextStorage.get_related_contexts
    cs_state,                \* "idle", "called" or "returned"
    context_cache,           \* self._cache, the stored entries: id -> relationships (Absent: no entry)
    element_id,              \* argument element_id
    max_depth,               \* argument max_depth
    related                  \* the list get_related_contexts returned, as entry ids

ixVars == <<salt, index, write_holder, write_waiters, read_holder, read_waiters, sem,
            running, ipc, iop, ops, upserted, result>>

chatVars == <<chat_last_request_time, chat_lock_holder, chat_lock_waiters, chat_running,
              cpc, attempt, cwake, outcomes, waits, cresult, calls, last_repo_info, issued>>

pfVars == <<pf_state, file_path, content, chunks>>

tgVars == <<tg>>

csVars == <<cs_state, context_cache, element_id, max_depth, related>>

nonGH == <<tgVars, ixVars, chatVars, pfVars, csVars>>

ghVars == <<head, fresh, current_commit_sha, last_request_time, lock_holder,
            lock_waiters, content_cache, gpc, gwake, greq, gref, run, frames,
            structure, deps_i, dependencies, readme_i, readme, run_commits, branch_lookups, last_call, call_gap>>

nonIX == <<now, ghVars, tgVars, chatVars, pfVars, csVars>>

nonChat == <<ghVars, tgVars, ixVars, pfVars, csVars>>

nonPF == <<now, ghVars, tgVars, ixVars, chatVars, csVars>>

nonCS == <<now, ghVars, tgVars, ixVars, chatVars, pfVars>>

\* what a direct call of tracked_get_contents leaves alone
nonTG == <<head, fresh, current_commit_sha, lock_holder, lock_waiters, gpc, gwake, greq,
           gref, run, frames, structure, deps_i, dependencies, readme_i, readme,
           run_commits, branch_lookups, last_call, call_gap, ixVars, chatVars, pfVars,
           csVars>>

----------------------------------------------------------------------------
\* Bounds of the model
MaxTime == 5
StartTime == 2
MaxCommits == 3
MaxRuns == 2
MaxOps == 3
MaxChunks == 11
MaxItems == 3
MaxText == 3
MaxLimit == 2
MaxCalls == 3
MaxChatTime == 12
MaxLines == 101
MaxFetches == 3
MaxDepth == 2

----------------------------------------------------------------------------
\* GitHubService: constants and pure helpers

MIN_REQUEST_INTERVAL == 1
CACHE_TTL == 3600
None == 0

Subtasks == {"structure", "deps", "readme"}
\* asyncio.gather(structure, dependencies, readme): tasks first run in this order
GatherOrder == [structure |-> 1, deps |-> 2, readme |-> 3]
NoTask == "none"
NoPath == "<none>"

HostBranches == {"main", "dev"}
DefaultBranch == "main"
\* Repository URLs. A string is the sequence of its lexical tokens: a separator
\* ("/", "?", " ") is a token of its own, and so is the text between two separators.
Urls == { << "https:", "/", "/", "github.com", "/", "o", "/", "r" >>,
          << "https:", "/", "/", "github.com", "/", "o", "/", "r", "/", "tree", "/", "dev" >>,
          << "https:", "/", "/", "github.com", "/", "o", "/", "r", "/", "gone", "/" >>,
          << " ", "https:", "/", "/", "github.com", "/", "o", "/", "r", "/", "blob", "/",
             "dev", "/", "src", "/", " " >>,
          << "https:", "/", "/", "github.com", "/", "o", "/" >>,
          << "https:", "/", "/", "github.com", "/", "/", "o", "?", "tab", "/", "r" >>,
          << "https:", "/", "/", "github.com" >> }

\* the index of the first token of str at or after `from` that is in `set`
\* (Len(str) + 1 when there is none)
FirstIn(str, set, from) ==
    IF \E i \in from..Len(str) : str[i] \in set
    THEN CHOOSE i \in from..Len(str) :
             str[i] \in set /\ \A j \in from..(i - 1) : str[j] \notin set
    ELSE Len(str) + 1

\* the index of the last token of str that is not `ch` (0 when there is none)
LastNot(str, ch) ==
    IF \E i \in 1..Len(str) : str[i] # ch
    THEN CHOOSE i \in 1..Len(str) : str[i] # ch /\ \A j \in (i + 1)..Len(str) : str[j] = ch
    ELSE 0

\* url.strip().rstrip('/')
Stripped(url) ==
    LET blank == {" "}
        inner == SubSeq(url, FirstIn(url, {url[i] : i \in 1..Len(url)} \ blank, 1),
                        LastNot(url, " "))
    IN  SubSeq(inner, 1, LastNot(inner, "/"))

\* urlparse(url).path: what follows the scheme and the //netloc, up to the query
\* or the fragment
UrlPath(url) ==
    LET rest == IF url # << >> /\ url[1] \in {"https:", "http:"} THEN Tail(url) ELSE url
        netloc == Len(rest) >= 2 /\ rest[1] = "/" /\ rest[2] = "/"
        start == IF netloc THEN FirstIn(rest, {"/", "?", "#"}, 3) ELSE 1
        stop == FirstIn(rest, {"?", "#"}, start)
    IN  SubSeq(rest, start, stop - 1)

\* str.split('/'): the text between the slashes ("" where there is none)
SplitSlash(str) ==
    LET cuts == SelectSeq([i \in 1..Len(str) |-> i], LAMBDA i : str[i] = "/")
        lo(k) == IF k = 1 THEN 1 ELSE cuts[k - 1] + 1
        hi(k) == IF k = Len(cuts) + 1 THEN Len(str) ELSE cuts[k] - 1
    IN  [k \in 1..(Len(cuts) + 1) |-> IF lo(k) > hi(k) THEN "" ELSE str[lo(k)]]

\* '/'.join(parts) for the paths of the tree ("" stands for None)
JoinSlash(parts) ==
    CASE parts = << >>                -> ""
      [] Len(parts) = 1               -> parts[1]
      [] parts = << "src", "README.md" >> -> "src/README.md"
      [] parts = << "src", "utils.JS" >>  -> "src/utils.JS"
      [] OTHER                        -> NoPath

InvalidUrl == "Invalid GitHub URL format"

\* a parser that accepts a path of one segment (the owner alone)
parse_github_url_Lenient(url) ==
    LET path_parts == SelectSeq(SplitSlash(UrlPath(Stripped(url))),
                                LAMBDA part : part # "")
    IN  IF Len(path_parts) < 1
        THEN [error |-> InvalidUrl, repo |-> << >>, branch |-> "", path |-> ""]
        ELSE [error |-> "", repo |-> << path_parts[1], path_parts[Len(path_parts)] >>,
              branch |-> "", path |-> ""]

\* _parse_github_url: (repo_full_name, branch, path), or the ValueError of line 143
parse_github_url(url) ==
    LET path_parts == SelectSeq(SplitSlash(UrlPath(Stripped(url))),
                                LAMBDA part : part # "")
        n == Len(path_parts)
        marked == n > 2 /\ path_parts[3] \in {"tree", "blob"}
    IN  IF n < 2
        THEN [error |-> InvalidUrl, repo |-> << >>, branch |-> "", path |-> ""]
        ELSE [error |-> "",
              repo |-> << path_parts[1], path_parts[2] >>,
              branch |-> IF marked THEN (IF n > 3 THEN path_parts[4] ELSE "")
                         ELSE IF n > 2 THEN path_parts[3] ELSE "",
              path |-> IF marked THEN (IF n > 4 THEN JoinSlash(SubSeq(path_parts, 5, n)) ELSE "")
                       ELSE IF n > 3 THEN JoinSlash(SubSeq(path_parts, 4, n)) ELSE ""]

\* an exception: its message and the branch names the message carries
NoError == [msg |-> "", names |-> {}]
Raised(msg) == [msg |-> msg, names |-> {}]

\* _handle_branch_error: the exception it raises (NoError when it returns). The
\* "not found" exception of line 235 is raised inside the try block, so the
\* handler of line 236 catches it like a failure of the listing and raises the
\* exception of line 238 in its place; the branch names are only logged.
handle_branch_error(b, listOk) ==
    LET inner == IF ~listOk THEN Raised("get_branches failed")
                 ELSE IF b \in HostBranches THEN NoError
                 ELSE Raised("Branch not found in repository")
    IN  IF inner = NoError THEN NoError ELSE Raised("Could not verify branch")

\* The repository tree served by the host: directory path -> entries
HostTree(dir) ==
    CASE dir = ""    -> << [path |-> "README.rst", type |-> "file"],
                           [path |-> "src", type |-> "dir"],
                           [path |-> "setup.py", type |-> "file"] >>
      [] dir = "src" -> << [path |-> "src/utils.JS", type |-> "file"],
                           [path |-> "src/README.md", type |-> "file"] >>
      [] OTHER       -> << >>

HostDirs == {"", "src"}
HostFiles == {"README.rst", "setup.py", "src/utils.JS", "src/README.md"}

\* Outcomes of repo.get_contents(path): a path the host does not have raises;
\* a directory listing may also fail for a reason of the host's own
CanSucceed(p) == p \in HostDirs \cup HostFiles
CanFail(p) == p \notin HostFiles

\* Path(p).suffix for the paths of the tree
Suffix(p) ==
    CASE p = "README.rst"   -> ".rst"
      [] p = "setup.py"     -> ".py"
      [] p = "src/utils.JS" -> ".JS"
      [] p = "src/README.md" -> ".md"
      [] OTHER              -> ""

\* str.lower() on the suffixes of the tree
Lower(x) == IF x = ".JS" THEN ".js" ELSE x

code_extensions == {".py", ".js", ".ts", ".jsx", ".tsx", ".java", ".cpp", ".c",
                    ".h", ".cs", ".rb", ".php", ".go", ".rs", ".swift", ".kt",
                    ".dart", ".vue", ".scala", ".r", ".jl"}

\* a test of the suffix as written, without lower()
is_code_file_CaseSensitive(p) == Suffix(p) \in code_extensions
is_code_file(p) == Lower(Suffix(p)) \in code_extensions

dependency_files == << "package.json", "requirements.txt", "Pipfile", "pyproject.toml",
                       "yarn.lock", "package-lock.json", "poetry.lock", "Pipfile.lock",
                       "setup.py" >>

readme_paths == << "README.md", "README.rst", "README", "README.txt" >>

\* ref = self._current_commit_sha if self._current_commit_sha else branch
RefFor(sha, branch) ==
    IF sha # None THEN [sha |-> sha, branch |-> ""]
                  ELSE [sha |-> None, branch |-> branch]

\* _get_contents, lines 85-97: which ref goes to repo.get_contents
ResolveRef(ref, stored, lookupOk) ==
    IF ref.sha # None THEN ref
    ELSE IF ref.branch # "" /\ stored # None THEN [sha |-> stored, branch |-> ""]
    ELSE IF ref.branch # "" /\ lookupOk /\ ref.branch \in HostBranches
         THEN [sha |-> head[ref.branch], branch |-> ""]
    ELSE ref

\* _get_contents, lines 91-94: the number of repo.get_branch calls one request makes
LookedUp(ref, stored) ==
    IF ref.sha = None /\ ref.branch # "" /\ stored = None THEN 1 ELSE 0

\* The commit whose content the host serves for a ref, at the time of the call
Served(ref) ==
    IF ref.sha # None THEN ref.sha
    ELSE IF ref.branch \in HostBranches THEN head[ref.branch]
    ELSE head[DefaultBranch]

\* lines 331-332: with a path in the URL, only the items whose path starts with
\* it are processed (startswith is written out for the paths of the tree)
Kept(items, path) ==
    LET StartsWith(p, prefix) ==
            \/ p = prefix
            \/ prefix = "src" /\ p \in {"src/utils.JS", "src/README.md"}
    IN  SelectSeq(items, LAMBDA item : path = "" \/ StartsWith(item.path, path))

EmptyStructure == [file_types |-> << >>, directories |-> << >>,
                   total_files |-> 0, code_files |-> << >>]

\* structure['file_types'][ext] = structure['file_types'].get(ext, 0) + 1
CountExt(ft, ext) ==
    IF \E i \in 1..Len(ft) : ft[i].ext = ext
    THEN [i \in 1..Len(ft) |-> IF ft[i].ext = ext
                               THEN [ext |-> ext, n |-> ft[i].n + 1] ELSE ft[i]]
    ELSE Append(ft, [ext |-> ext, n |-> 1])

\* the else-branch of the item loop: a file entry
AddFile(st, item) ==
    [st EXCEPT !.total_files = @ + 1,
               !.file_types = CountExt(@, Suffix(item.path)),
               !.code_files = IF is_code_file(item.path)
                              THEN Append(@, item.path) ELSE @]

\* The item loops of process_contents, run until the next directory listing
\* is requested (next is its path) or the recursion has returned to the top.
RECURSIVE Walk(_, _)
Walk(fr, st) ==
    IF fr = << >> THEN [frames |-> << >>, st |-> st, next |-> NoPath]
    ELSE IF Head(fr) = << >> THEN Walk(Tail(fr), st)
    ELSE LET item == Head(Head(fr))
             rest == << Tail(Head(fr)) >> \o Tail(fr)
         IN  IF item.type = "dir"
             THEN [frames |-> rest,
                   st |-> [st EXCEPT !.directories = Append(@, item.path)],
                   next |-> item.path]
             ELSE Walk(rest, AddFile(st, item))

----------------------------------------------------------------------------
\* GitHubService: the asyncio.Lock of _setup_rate_limiting

LockFree == lock_holder = NoTask /\ lock_waiters = << >>

\* a release that wakes nobody
ReleasedHolder_Nobody == NoTask
\* Lock.release(): the first suspended acquirer, if any, is handed the lock
ReleasedHolder == IF lock_waiters = << >> THEN NoTask ELSE Head(lock_waiters)
ReleasedWaiters == IF lock_waiters = << >> THEN << >> ELSE Tail(lock_waiters)

\* _get_contents, lines 76-79: remaining sleep before the request (0: none),
\* given the value of self._last_request_time
SleepNeeded(last) ==
    IF now - last < MIN_REQUEST_INTERVAL THEN MIN_REQUEST_INTERVAL - (now - last) ELSE 0

\* _get_contents, lines 81-102: ref resolution and the start of the host call
IssueRequest(t, lookupOk) ==
    LET sent == ResolveRef(RefFor(current_commit_sha, run.branch),
                           current_commit_sha, lookupOk)
    IN  /\ gpc' = [gpc EXCEPT ![t] = "inflight"]
        /\ gref' = [gref EXCEPT ![t] = Served(sent)]
        /\ run_commits' = run_commits \cup {Served(sent)}
        /\ branch_lookups' = branch_lookups + LookedUp(RefFor(current_commit_sha, run.branch),
                                                       current_commit_sha)
        /\ last_call' = now
        /\ call_gap' = IF last_call < 0 THEN -1 ELSE now - last_call

\* _get_contents from the moment the lock is held: sleep, or issue the request
EnterLocked(t, lookupOk, last) ==
    IF SleepNeeded(last) > 0
    THEN /\ gpc' = [gpc EXCEPT ![t] = "sleeping"]
         /\ gwake' = [gwake EXCEPT ![t] = now + SleepNeeded(last)]
         /\ UNCHANGED <<gref, run_commits, branch_lookups, last_call, call_gap>>
    ELSE /\ IssueRequest(t, lookupOk)
         /\ UNCHANGED gwake

\* async with self._request_lock, the lock being (holder, waiters): enter, or
\* suspend at the end of the FIFO of acquirers
AcquireLock(t, lookupOk, last, holder, waiters) ==
    IF holder = NoTask /\ waiters = << >>
    THEN /\ lock_holder' = t
         /\ lock_waiters' = << >>
         /\ EnterLocked(t, lookupOk, last)
    ELSE /\ lock_holder' = holder
         /\ lock_waiters' = Append(waiters, t)
         /\ gpc' = [gpc EXCEPT ![t] = "waiting"]
         /\ UNCHANGED <<gwake, gref, run_commits, branch_lookups, last_call, call_gap>>

\* tracked_get_contents, lines 114-124: a cache entry for the key that is still valid
CacheKey(p) == [path |-> p, ref |-> RefFor(current_commit_sha, run.branch)]
\* a cache whose entries never expire
CacheValid_Forever(cache, key) == \E e \in cache : e.key = key
CacheValid(cache, key) == \E e \in cache : e.key = key /\ now - e.time < CACHE_TTL
CacheHit(cache, p) == CacheValid(cache, CacheKey(p))
CacheWithout(cache, k) == {e \in cache : e.key # k}

----------------------------------------------------------------------------
\* GitHubService: what each analysis task does with a result; greq' is the path
\* the task asks for next (NoPath: the task is finished)

\* a walk that a failed listing ends: the levels above are abandoned
StructureResult_Abort(ok) ==
    LET fr == IF ok THEN << Kept(HostTree(greq["structure"]), run.path) >> \o frames
                    ELSE << >>
        w  == Walk(fr, structure)
    IN  /\ frames' = w.frames
        /\ structure' = w.st
        /\ greq' = [greq EXCEPT !["structure"] = w.next]
        /\ UNCHANGED <<deps_i, dependencies, readme_i, readme>>

\* process_contents: a listing arrived (ok) or raised
StructureResult(ok) ==
    LET fr == IF ok THEN << Kept(HostTree(greq["structure"]), run.path) >> \o frames
                    ELSE frames
        w  == Walk(fr, structure)
    IN  /\ frames' = w.frames
        /\ structure' = w.st
        /\ greq' = [greq EXCEPT !["structure"] = w.next]
        /\ UNCHANGED <<deps_i, dependencies, readme_i, readme>>

\* _analyze_dependencies: both loops, one file per request
DepsResult(ok) ==
    LET i == deps_i + 1
    IN  /\ deps_i' = i
        /\ dependencies' = IF ok THEN dependencies \cup {dependency_files[deps_i]}
                                 ELSE dependencies
        /\ greq' = [greq EXCEPT !["deps"] =
                       IF i <= Len(dependency_files) THEN dependency_files[i] ELSE NoPath]
        /\ UNCHANGED <<frames, structure, readme_i, readme>>

\* _get_readme_content: return the first candidate that resolves
ReadmeResult(ok) ==
    LET i == readme_i + 1
    IN  /\ readme_i' = i
        /\ readme' = IF ok THEN readme_paths[readme_i] ELSE readme
        /\ greq' = [greq EXCEPT !["readme"] =
                       IF ~ok /\ i <= Len(readme_paths) THEN readme_paths[i] ELSE NoPath]
        /\ UNCHANGED <<frames, structure, deps_i, dependencies>>

TaskResult(t, ok) ==
    CASE t = "structure" -> StructureResult(ok)
      [] t = "deps"      -> DepsResult(ok)
      [] t = "readme"    -> ReadmeResult(ok)

----------------------------------------------------------------------------
\* GitHubService: actions

\* repo_info as analyze_repository returns it (returned is FALSE when it raised)
NoInfo == [returned |-> FALSE, structure |-> EmptyStructure, dependencies |-> {},
           readme |-> "", has_relationships |-> FALSE, imports_graph |-> {},
           embedded |-> FALSE, embedding_error |-> FALSE]

\* lines 210-214
RepoInfo(st, deps, rd) ==
    [NoInfo EXCEPT !.returned = TRUE, !.structure = st, !.dependencies = deps, !.readme = rd]

\* the call of lines 262-266 passes these arguments to the method of line 450,
\* which takes these parameters and is a plain function, not a coroutine function
relationships_arguments == << "repo", "code_files", "self._current_commit_sha" >>
relationships_parameters == << "repo", "code_files" >>
relationships_awaitable == FALSE

\* files of the tree with import statements (the keys of imports_graph)
Importing == {"setup.py", "src/utils.JS"}

\* _process_code_files: the exception it raises and repo_info as it leaves it.
\* The call of _analyze_code_relationships raises TypeError when the arguments do
\* not fit the parameters, and `await` raises TypeError on what a plain function
\* returns; the rest of the body (relationships, embeddings with the
\* embedding_error flag of line 302) runs only after that call.
process_code_files(info, embedOk) ==
    IF \/ Len(relationships_arguments) # Len(relationships_parameters)
       \/ ~relationships_awaitable
    THEN [error |-> Raised("TypeError"), info |-> info]
    ELSE [error |-> NoError,
          info |-> [info EXCEPT !.has_relationships = TRUE,
                                !.imports_graph =
                                    {f \in Importing :
                                        \E i \in 1..Len(info.structure.code_files) :
                                            info.structure.code_files[i] = f},
                                !.embedded = embedOk,
                                !.embedding_error = ~embedOk]]

IdleTasks == [t \in Subtasks |-> "idle"]

\* lines 183-201: the host calls analyze_repository makes itself (client.get_repo,
\* repo.get_branch, repo.get_branches, repo.get_topics): none of them is inside
\* `async with self._request_lock`, none is preceded by the spacing sleep
Unlimited(names) ==
    [i \in 1..Len(names) |-> [name |-> names[i], locked |-> FALSE, spaced |-> FALSE]]

\* analyze_repository, lines 175-208: clear the cache, parse the URL, get the
\* repository, verify the branch (lookup, else _handle_branch_error), gather basic
\* info, start the three tasks. Any exception ends the call (lines 223-225).
AnalyzeRepository(url, lookupOk, listOk) ==
    /\ run.phase \in {"idle", "done", "failed"}
    /\ run.id < MaxRuns
    /\ content_cache' = {}
    /\ LET parsed == parse_github_url(url)
           b == parsed.branch
           error == IF parsed.error # "" THEN Raised(parsed.error)
                    ELSE IF b = "" \/ lookupOk THEN NoError
                    ELSE handle_branch_error(b, listOk)
           verified == error = NoError
           how == IF b = "" THEN "nobranch" ELSE IF lookupOk THEN "lookup" ELSE "listing"
       IN  /\ lookupOk => b \in HostBranches
           /\ current_commit_sha' =
                 IF b # "" /\ lookupOk THEN head[b] ELSE current_commit_sha
           /\ run' = [id |-> run.id + 1, url |-> url, branch |-> b, path |-> parsed.path,
                      phase |-> IF verified THEN "gather" ELSE "failed",
                      verified |-> IF verified THEN how ELSE "no",
                      captured |-> IF b # "" /\ lookupOk THEN head[b] ELSE None,
                      start_head |-> IF b \in HostBranches THEN head[b] ELSE None,
                      host_calls |-> Unlimited(
                                     IF parsed.error # "" THEN << >>
                                     ELSE IF b = "" THEN << "get_repo", "get_topics" >>
                                     ELSE IF lookupOk
                                     THEN << "get_repo", "get_branch", "get_topics" >>
                                     ELSE IF verified
                                     THEN << "get_repo", "get_branch", "get_branches",
                                             "get_topics" >>
                                     ELSE << "get_repo", "get_branch", "get_branches" >>),
                      branches_listed |-> parsed.error = "" /\ b # "" /\ ~lookupOk /\ listOk,
                      embed_ok |-> TRUE,
                      info |-> NoInfo,
                      error |-> error]
           /\ gpc' = IF verified THEN [t \in Subtasks |-> "start"] ELSE IdleTasks
           /\ greq' = [structure |-> parsed.path, deps |-> dependency_files[1],
                       readme |-> readme_paths[1]]
    /\ frames' = << >>
    /\ structure' = EmptyStructure
    /\ deps_i' = 1
    /\ dependencies' = {}
    /\ readme_i' = 1
    /\ readme' = ""
    /\ run_commits' = {}
    /\ branch_lookups' = IF parse_github_url(url).error = "" /\ parse_github_url(url).branch # ""
                         THEN 1 ELSE 0
    /\ UNCHANGED <<now, head, fresh, last_request_time, lock_holder, lock_waiters,
                   gwake, gref, last_call, call_gap>>
    /\ UNCHANGED nonGH

\* A task starts: tracked_get_contents up to the first suspension of _get_contents.
\* A valid cache entry is returned at once; otherwise the lock is taken (then sleep
\* or request) or waited for.
Fetch(t, lookupOk) ==
    /\ gpc[t] = "start"
    /\ \A u \in Subtasks : gpc[u] = "start" => GatherOrder[t] <= GatherOrder[u]
    /\ IF CacheHit(content_cache, greq[t])
       THEN /\ TaskResult(t, TRUE)
            /\ gpc' = [gpc EXCEPT ![t] = IF greq'[t] = NoPath THEN "done" ELSE "start"]
            /\ UNCHANGED <<content_cache, lock_holder, lock_waiters, gwake, gref,
                           run_commits, branch_lookups, last_call, call_gap>>
       ELSE /\ content_cache' = CacheWithout(content_cache, CacheKey(greq[t]))
            /\ UNCHANGED <<greq, frames, structure, deps_i, dependencies, readme_i, readme>>
            /\ AcquireLock(t, lookupOk, last_request_time, lock_holder, lock_waiters)
    /\ UNCHANGED <<now, head, fresh, current_commit_sha, last_request_time, run>>
    /\ UNCHANGED nonGH

\* a suspended acquirer resumes holding the lock
Granted(t, lookupOk) ==
    /\ gpc[t] = "waiting"
    /\ lock_holder = t
    /\ EnterLocked(t, lookupOk, last_request_time)
    /\ UNCHANGED <<now, head, fresh, current_commit_sha, last_request_time, lock_holder,
                   lock_waiters, content_cache, greq, run, frames, structure, deps_i,
                   dependencies, readme_i, readme>>
    /\ UNCHANGED nonGH

\* asyncio.sleep(...) of line 79 is over
Wake(t, lookupOk) ==
    /\ gpc[t] = "sleeping"
    /\ now >= gwake[t]
    /\ IssueRequest(t, lookupOk)
    /\ UNCHANGED <<now, head, fresh, current_commit_sha, last_request_time, lock_holder,
                   lock_waiters, content_cache, gwake, greq, run, frames, structure,
                   deps_i, dependencies, readme_i, readme>>
    /\ UNCHANGED nonGH

\* repo.get_contents returns (ok) or raises: lines 104-109 and the release of the
\* lock; tracked_get_contents caches a result; the task handles the outcome and goes on
\* to its next tracked_get_contents until that suspends
Complete(t, ok, lookupOk) ==
    /\ gpc[t] = "inflight"
    /\ IF ok THEN CanSucceed(greq[t]) ELSE CanFail(greq[t])
    /\ last_request_time' = IF ok THEN now ELSE last_request_time
    /\ TaskResult(t, ok)
    /\ LET cached == IF ok
                     THEN CacheWithout(content_cache, CacheKey(greq[t])) \cup
                          {[key |-> CacheKey(greq[t]), time |-> now,
                            commit |-> gref[t]]}
                     ELSE content_cache
           nxt == greq'[t]
       IN  IF nxt = NoPath \/ CacheHit(cached, nxt)
           THEN /\ content_cache' = cached
                /\ gpc' = [gpc EXCEPT ![t] = IF nxt = NoPath THEN "done" ELSE "start"]
                /\ lock_holder' = ReleasedHolder
                /\ lock_waiters' = ReleasedWaiters
                /\ UNCHANGED <<gwake, gref, run_commits, branch_lookups, last_call, call_gap>>
           ELSE /\ content_cache' = CacheWithout(cached, CacheKey(nxt))
                /\ AcquireLock(t, lookupOk, last_request_time',
                               ReleasedHolder, ReleasedWaiters)
    /\ UNCHANGED <<now, head, fresh, current_commit_sha, run>>
    /\ UNCHANGED nonGH

\* asyncio.gather is complete; lines 210-225: the results are merged into
\* repo_info, code files are processed, repo_info is returned; an exception of
\* _process_code_files ends the call with the exception of line 225.
FinishRun(embedOk) ==
    /\ run.phase = "gather"
    /\ \A t \in Subtasks : gpc[t] = "done"
    /\ LET merged == RepoInfo(structure, dependencies, readme)
           processed == IF structure.code_files # << >>
                        THEN process_code_files(merged, embedOk)
                        ELSE [error |-> NoError, info |-> merged]
       IN  run' = [run EXCEPT !.phase = IF processed.error = NoError THEN "done" ELSE "failed",
                              !.embed_ok = embedOk,
                              !.error = processed.error,
                              !.info = IF processed.error = NoError THEN processed.info
                                       ELSE NoInfo]
    /\ gpc' = IdleTasks
    /\ UNCHANGED <<now, head, fresh, current_commit_sha, last_request_time, lock_holder,
                   lock_waiters, content_cache, gwake, greq, gref, frames, structure,
                   deps_i, dependencies, readme_i, readme, run_commits, branch_lookups, last_call, call_gap>>
    /\ UNCHANGED nonGH

\* tracked_get_contents called on its own (no other call in progress, so the
\* request lock is free): the whole call, lines 111-134 with _get_contents. A
\* valid entry is returned; otherwise an expired entry is deleted, the spacing
\* sleep is slept, the host is asked and a result is cached.
NoCall == [n |-> 0, path |-> NoPath, ref |-> RefFor(None, ""), had_entry |-> FALSE,
           entry_time |-> 0, start |-> 0, requested |-> FALSE, outcome |-> "none",
           commit |-> None, resolved |-> None]


TrackedGetContents(p, ref, ok, lookupOk) ==
    /\ tg.n < MaxFetches
    /\ lookupOk => ref.branch \in HostBranches
    /\ LET key == [path |-> p, ref |-> ref]
           old == {e \in content_cache : e.key = key}
           hit == CacheValid(content_cache, key)
           fetched_at == now + SleepNeeded(last_request_time)
           sent == ResolveRef(ref, current_commit_sha, lookupOk)
       IN  /\ IF hit THEN ok /\ ~lookupOk
                     ELSE IF ok THEN CanSucceed(p) ELSE CanFail(p)
           /\ now' = IF hit THEN now ELSE fetched_at
           /\ last_request_time' = IF ~hit /\ ok THEN fetched_at ELSE last_request_time
           /\ content_cache' =
                 IF hit THEN content_cache
                 ELSE IF ok THEN CacheWithout(content_cache, key) \cup
                                 {[key |-> key, time |-> fetched_at, commit |-> Served(sent)]}
                 ELSE CacheWithout(content_cache, key)
           /\ tg' = [n |-> tg.n + 1, path |-> p, ref |-> ref,
                     had_entry |-> old # {},
                     entry_time |-> IF old # {} THEN (CHOOSE e \in old : TRUE).time ELSE 0,
                     start |-> now,
                     requested |-> ~hit,
                     outcome |-> IF hit THEN "hit" ELSE IF ok THEN "fetched" ELSE "raised",
                     commit |-> IF hit THEN (CHOOSE e \in old : TRUE).commit
                                ELSE IF ok THEN Served(sent) ELSE None,
                     resolved |-> Served(ref)]
    /\ UNCHANGED nonTG

\* time passes between two calls
Elapse(d) ==
    /\ now + d <= 2 * CACHE_TTL + MaxFetches
    /\ now' = now + d
    /\ UNCHANGED <<last_request_time, content_cache, tg>>
    /\ UNCHANGED nonTG

\* the host: somebody pushes to a branch
HeadMoves(b) ==
    /\ fresh <= MaxCommits
    /\ head' = [head EXCEPT ![b] = fresh]
    /\ fresh' = fresh + 1
    /\ UNCHANGED <<now, current_commit_sha, last_request_time, lock_holder, lock_waiters,
                   content_cache, gpc, gwake, greq, gref, run, frames, structure, deps_i,
                   dependencies, readme_i, readme, run_commits, branch_lookups, last_call, call_gap>>
    /\ UNCHANGED nonGH

\* one second passes; the clock is advanced when a sleeping task waits for it
TickGH ==
    /\ now < MaxTime
    /\ \E t \in Subtasks : gpc[t] = "sleeping" /\ now < gwake[t]
    /\ now' = now + 1
    /\ UNCHANGED ghVars
    /\ UNCHANGED nonGH

\* one second passes, on a clock that is not cut off at MaxTime
TickOn ==
    /\ \E t \in Subtasks : gpc[t] = "sleeping" /\ now < gwake[t]
    /\ now' = now + 1
    /\ UNCHANGED ghVars
    /\ UNCHANGED nonGH

----------------------------------------------------------------------------
\* QdrantManager / EmbeddingsManager: constants and pure helpers

IxTasks == {"t1", "t2"}

OPERATION_SLOTS == 10
PROCESS_BATCH_SIZE == 10
STORE_BATCH_SIZE == 100
\* similarity scores and thresholds are in tenths
SCORE_THRESHOLD == 5
FILE_SCORE_THRESHOLD == 3

EmptyText == 0
Texts == 1..MaxText
Files == {"f1", "f2"}
Queries == {1, 2}

\* hash(s) of the running interpreter: hash('') is 0 whatever the seed; any other
\* string hashes to a value that depends on the seed
PyHash(text) == IF text = EmptyText THEN 0 ELSE 2 * text + salt

\* uuid.uuid5(uuid.NAMESPACE_DNS, name): a function of the name
Uuid5(name) == <<"uuid5", name>>

\* meta.get('content', ''): the metadata CodeProcessor builds has no 'content' key
MetaContent(meta) == IF meta.has_content THEN meta.content ELSE EmptyText

\* an id that also depends on the file the chunk comes from
PointId_PerFile(meta) == Uuid5(<<meta.file, PyHash(MetaContent(meta))>>)

\* store_code_vectors, lines 116-118
PointId(meta) == Uuid5(PyHash(MetaContent(meta)))

\* store_code_vectors, lines 120-131: the point built for one (embedding, meta)
PointOf(meta) ==
    [id |-> PointId(meta), file_path |-> meta.file_path, content |-> MetaContent(meta),
     raw |-> meta.raw, file |-> meta.file]

\* client.upsert(points): points are written in order, a point replaces the point
\* with the same id
RECURSIVE Upsert(_, _)
Upsert(ix, pts) ==
    IF pts = << >> THEN ix
    ELSE Upsert({q \in ix : q.id # Head(pts).id} \cup {Head(pts)}, Tail(pts))

\* The chunk metadata process_repository hands on: chunk[1] of CodeProcessor with
\* raw_content added by _prepare_text_for_embedding; it has 'file' but neither
\* 'content' nor 'file_path', so meta.get('file_path', '') is ''
ChunkMeta(text, file) ==
    [has_content |-> FALSE, content |-> EmptyText, raw |-> text, file |-> file,
     file_path |-> ""]

\* Metadata of a direct caller of store_code_vectors that gives 'content'
FilePath(file) == IF file = "f1" THEN "util.py" ELSE "*util.py*"
CallerMeta(text, file) ==
    [has_content |-> TRUE, content |-> text, raw |-> text, file |-> file,
     file_path |-> FilePath(file)]

\* The chunk lists fed to process_repository: n chunks, all with the same text
\* ("same": from two files in turn) or with the texts 1, 2, .. in turn ("distinct")
ChunkText(pattern, i) == IF pattern = "same" THEN 1 ELSE ((i - 1) % MaxText) + 1
ChunkFile(i) == IF i % 2 = 1 THEN "f1" ELSE "f2"
ChunkList(pattern, n) == [i \in 1..n |-> ChunkMeta(ChunkText(pattern, i), ChunkFile(i))]
ItemList(n) == [i \in 1..n |-> CallerMeta(((i - 1) % MaxText) + 1, ChunkFile(i))]

Min(a, b) == IF a < b THEN a ELSE b
Slice(seq, from, to) == [i \in 1..(Min(to, Len(seq)) - from + 1) |-> seq[from + i - 1]]

\* cosine similarity of the query embedding and a point's vector, in tenths
Score(q, pt) == (3 * q + 4 * pt.raw + (IF pt.file = "f1" THEN 0 ELSE 5)) % 11

\* client.search(query_vector, limit, score_threshold, query_filter): the points
\* that pass the filter and reach the threshold, best first, at most `limit`
RECURSIVE BestFirst(_, _)
BestFirst(q, pts) ==
    IF pts = {} THEN << >>
    ELSE LET best == CHOOSE x \in pts : \A y \in pts : Score(q, x) >= Score(q, y)
         IN  << best >> \o BestFirst(q, pts \ {best})

QdrantSearch(ix, q, limit, threshold, file_filter) ==
    LET hits == {pt \in ix : /\ Score(q, pt) >= threshold
                             /\ file_filter # "" => pt.file_path = file_filter}
        all == BestFirst(q, hits)
    IN  Slice(all, 1, limit)

\* QdrantManager.search_code, lines 168-180: one result dict per hit
Formatted(q, hits) ==
    [i \in 1..Len(hits) |-> [file_path |-> hits[i].file_path, content |-> hits[i].content,
                             raw |-> hits[i].raw, file |-> hits[i].file,
                             similarity_score |-> Score(q, hits[i])]]

\* processed_results.sort(key=similarity_score, reverse=True): a stable sort
RECURSIVE SortDesc(_)
SortDesc(rs) ==
    IF rs = << >> THEN << >>
    ELSE LET k == CHOOSE i \in 1..Len(rs) :
                     /\ \A j \in 1..Len(rs) : rs[i].similarity_score >= rs[j].similarity_score
                     /\ \A j \in 1..(i - 1) : rs[j].similarity_score # rs[i].similarity_score
         IN  << rs[k] >> \o SortDesc([j \in 1..(Len(rs) - 1) |-> IF j < k THEN rs[j] ELSE rs[j + 1]])

\* EmbeddingsManager.search_code, lines 108-118: the parameters of the index search
SearchLimit(limit) == limit * 2
SearchThreshold(kind) == IF kind = "file" THEN FILE_SCORE_THRESHOLD ELSE SCORE_THRESHOLD
\* f"*{file_name}*" for the file name "util.py"; _build_filter_conditions makes it
\* a MatchValue condition, an exact match on the payload's file_path
SearchFilter(kind) == IF kind = "file" THEN "*util.py*" ELSE ""

\* the sorted results without the cut to `limit`
Returned_Uncut(rs, limit) == SortDesc(rs)

\* EmbeddingsManager.search_code, lines 164-165
Returned(rs, limit) == Slice(SortDesc(rs), 1, limit)

IdleOp == [kind |-> "none", chunks |-> << >>, bi |-> 0, bad |-> EmptyText,
           store_failed |-> FALSE,
           items |-> << >>, si |-> 0, batch_size |-> 0,
           q |-> 0, limit |-> 0, qkind |-> "", hits |-> << >>]

NoResult == [status |-> "none", q |-> 0, limit |-> 0, qkind |-> "", list |-> << >>]

\* asyncio.Lock of _setup_concurrency: release hands the lock to the first waiter
HandOver(waiters) == IF waiters = << >> THEN NoTask ELSE Head(waiters)
Rest(waiters) == IF waiters = << >> THEN << >> ELSE Tail(waiters)
\* ... and that waiter is made ready to go on inside the with-block
Woken(pcs, waiters, inside) ==
    IF waiters = << >> THEN pcs ELSE [pcs EXCEPT ![Head(waiters)] = inside]

\* the event loop runs one task at a time: t goes on, or is picked when none runs
CanRun(t) == running = t \/ running = NoTask

\* an upsert that is awaited: the event loop is free while the index is written
AfterUpsert_Awaited(t) == NoTask

\* self.client.upsert(...) at line 134 is a plain blocking call: the task keeps
\* the event loop while the index is written
AfterUpsert(t) == t

----------------------------------------------------------------------------
\* QdrantManager / EmbeddingsManager: actions

\* EmbeddingsManager.process_repository is called with the chunks of the files
StartProcess(t, pattern, n, bad) ==
    /\ running = NoTask /\ ipc[t] = "idle" /\ ops < MaxOps
    /\ iop' = [iop EXCEPT ![t] = [IdleOp EXCEPT !.kind = "process",
                                                !.chunks = ChunkList(pattern, n),
                                                !.bi = 1, !.bad = bad]]
    /\ ipc' = [ipc EXCEPT ![t] = "p_loop"]
    /\ running' = t
    /\ ops' = ops + 1
    /\ UNCHANGED <<salt, index, write_holder, write_waiters, read_holder, read_waiters,
                   sem, upserted, result>>
    /\ UNCHANGED nonIX

\* process_repository, lines 65-86: one pass of the batch loop up to the call of
\* store_code_vectors; a failing embedding call skips the whole batch
ProcessBatch(t) ==
    /\ ipc[t] = "p_loop" /\ CanRun(t)
    /\ LET o == iop[t]
           batch == Slice(o.chunks, o.bi, o.bi + PROCESS_BATCH_SIZE - 1)
       IN  IF o.bi > Len(o.chunks)
           THEN /\ ipc' = [ipc EXCEPT ![t] = "idle"]
                /\ iop' = [iop EXCEPT ![t] = IdleOp]
                /\ running' = NoTask
           ELSE IF \E i \in 1..Len(batch) : batch[i].raw = o.bad
           THEN /\ iop' = [iop EXCEPT ![t].bi = @ + PROCESS_BATCH_SIZE]
                /\ ipc' = ipc
                /\ running' = t
           ELSE /\ iop' = [iop EXCEPT ![t].items = batch, ![t].si = 1,
                                      ![t].batch_size = STORE_BATCH_SIZE]
                /\ ipc' = [ipc EXCEPT ![t] = "s_acquire"]
                /\ running' = t
    /\ UNCHANGED <<salt, index, write_holder, write_waiters, read_holder, read_waiters,
                   sem, ops, upserted, result>>
    /\ UNCHANGED nonIX

\* QdrantManager.store_code_vectors is called directly, with 'content' in the metadata
StartStore(t, n, bs) ==
    /\ running = NoTask /\ ipc[t] = "idle" /\ ops < MaxOps
    /\ iop' = [iop EXCEPT ![t] = [IdleOp EXCEPT !.kind = "store", !.items = ItemList(n),
                                                !.si = 1, !.batch_size = bs]]
    /\ ipc' = [ipc EXCEPT ![t] = "s_acquire"]
    /\ running' = t
    /\ ops' = ops + 1
    /\ UNCHANGED <<salt, index, write_holder, write_waiters, read_holder, read_waiters,
                   sem, upserted, result>>
    /\ UNCHANGED nonIX

\* store_code_vectors, line 107: async with self._write_lock
StoreAcquire(t) ==
    /\ ipc[t] = "s_acquire" /\ CanRun(t)
    /\ IF write_holder = NoTask /\ write_waiters = << >>
       THEN /\ write_holder' = t
            /\ ipc' = [ipc EXCEPT ![t] = "s_loop"]
            /\ running' = t
            /\ UNCHANGED write_waiters
       ELSE /\ write_waiters' = Append(write_waiters, t)
            /\ ipc' = [ipc EXCEPT ![t] = "s_wait"]
            /\ running' = NoTask
            /\ UNCHANGED write_holder
    /\ UNCHANGED <<salt, index, read_holder, read_waiters, sem, iop, ops, upserted, result>>
    /\ UNCHANGED nonIX

\* what follows the with-block of store_code_vectors: the caller goes on
\* (process_repository with its next batch, also when the call raised)
StoreLeave(t, raised) ==
    /\ write_holder' = HandOver(write_waiters)
    /\ write_waiters' = Rest(write_waiters)
    /\ IF iop[t].kind = "process"
       THEN /\ iop' = [iop EXCEPT ![t].bi = @ + PROCESS_BATCH_SIZE, ![t].items = << >>,
                                  ![t].si = 0, ![t].batch_size = 0,
                                  ![t].store_failed = @ \/ raised]
            /\ ipc' = [Woken(ipc, write_waiters, "s_loop") EXCEPT ![t] = "p_loop"]
            /\ running' = t
       ELSE /\ iop' = [iop EXCEPT ![t] = IdleOp]
            /\ ipc' = [Woken(ipc, write_waiters, "s_loop") EXCEPT ![t] = "idle"]
            /\ running' = NoTask

\* store_code_vectors, lines 110-137: the points of one batch are built, a slot of
\* the semaphore is taken and the batch is upserted; or the upsert raises and the
\* call ends with the earlier batches written
StoreBatch(t, ok) ==
    /\ ipc[t] = "s_loop" /\ CanRun(t)
    /\ iop[t].si <= Len(iop[t].items)
    /\ sem > 0
    /\ LET o == iop[t]
           batch == Slice(o.items, o.si, o.si + o.batch_size - 1)
           pts == [i \in 1..Len(batch) |-> PointOf(batch[i])]
       IN  IF ok
           THEN /\ index' = Upsert(index, pts)
                /\ sem' = sem - 1
                /\ upserted' = IF o.kind = "process"
                               THEN upserted \cup {[raw |-> pts[i].raw, file |-> pts[i].file,
                                                   id |-> pts[i].id] : i \in 1..Len(pts)}
                               ELSE upserted
                /\ iop' = [iop EXCEPT ![t].si = @ + o.batch_size]
                /\ ipc' = [ipc EXCEPT ![t] = "s_upserted"]
                /\ running' = AfterUpsert(t)
                /\ UNCHANGED <<write_holder, write_waiters>>
           ELSE /\ StoreLeave(t, TRUE)
                /\ UNCHANGED <<index, sem, upserted>>
    /\ UNCHANGED <<salt, read_holder, read_waiters, ops, result>>
    /\ UNCHANGED nonIX

\* store_code_vectors, lines 137-139: the slot is given back, next batch
StoreBatchEnd(t) ==
    /\ ipc[t] = "s_upserted" /\ CanRun(t)
    /\ sem' = sem + 1
    /\ ipc' = [ipc EXCEPT ![t] = "s_loop"]
    /\ running' = t
    /\ UNCHANGED <<salt, index, write_holder, write_waiters, read_holder, read_waiters,
                   iop, ops, upserted, result>>
    /\ UNCHANGED nonIX

\* store_code_vectors: all batches are written, the write lock is released
StoreReturn(t) ==
    /\ ipc[t] = "s_loop" /\ CanRun(t)
    /\ iop[t].si > Len(iop[t].items)
    /\ StoreLeave(t, FALSE)
    /\ UNCHANGED <<salt, index, read_holder, read_waiters, sem, ops, upserted, result>>
    /\ UNCHANGED nonIX

\* EmbeddingsManager.search_code(query, limit), lines 97-123: the query is embedded
\* (when that fails nothing is returned) and QdrantManager.search_code is entered
StartSearch(t, q, limit, kind, embedOk) ==
    /\ running = NoTask /\ ipc[t] = "idle" /\ ops < MaxOps
    /\ ops' = ops + 1
    /\ IF embedOk
       THEN /\ iop' = [iop EXCEPT ![t] = [IdleOp EXCEPT !.kind = "search", !.q = q,
                                                       !.limit = limit, !.qkind = kind]]
            /\ ipc' = [ipc EXCEPT ![t] = "q_acquire"]
            /\ running' = t
            /\ result' = [result EXCEPT ![t] = NoResult]
       ELSE /\ result' = [result EXCEPT ![t] = [NoResult EXCEPT !.status = "raised"]]
            /\ UNCHANGED <<iop, ipc, running>>
    /\ UNCHANGED <<salt, index, write_holder, write_waiters, read_holder, read_waiters,
                   sem, upserted>>
    /\ UNCHANGED nonIX

\* QdrantManager.search_code, line 151: async with self._read_lock
SearchAcquire(t) ==
    /\ ipc[t] = "q_acquire" /\ CanRun(t)
    /\ IF read_holder = NoTask /\ read_waiters = << >>
       THEN /\ read_holder' = t
            /\ ipc' = [ipc EXCEPT ![t] = "q_locked"]
            /\ running' = t
            /\ UNCHANGED read_waiters
       ELSE /\ read_waiters' = Append(read_waiters, t)
            /\ ipc' = [ipc EXCEPT ![t] = "q_wait"]
            /\ running' = NoTask
            /\ UNCHANGED read_holder
    /\ UNCHANGED <<salt, index, write_holder, write_waiters, sem, iop, ops, upserted, result>>
    /\ UNCHANGED nonIX

\* QdrantManager.search_code, lines 153-166: a slot of the semaphore is taken and
\* the index is searched; or the search raises
SearchQuery(t, ok) ==
    /\ ipc[t] = "q_locked" /\ CanRun(t)
    /\ sem > 0
    /\ LET o == iop[t]
       IN  IF ok
           THEN /\ iop' = [iop EXCEPT ![t].hits =
                              QdrantSearch(index, o.q, SearchLimit(o.limit),
                                           SearchThreshold(o.qkind), SearchFilter(o.qkind))]
                /\ sem' = sem - 1
                /\ ipc' = [ipc EXCEPT ![t] = "q_searched"]
                /\ running' = t
                /\ UNCHANGED <<read_holder, read_waiters, result>>
           ELSE /\ read_holder' = HandOver(read_waiters)
                /\ read_waiters' = Rest(read_waiters)
                /\ result' = [result EXCEPT ![t] = [NoResult EXCEPT !.status = "raised"]]
                /\ iop' = [iop EXCEPT ![t] = IdleOp]
                /\ ipc' = [Woken(ipc, read_waiters, "q_locked") EXCEPT ![t] = "idle"]
                /\ running' = NoTask
                /\ UNCHANGED sem
    /\ UNCHANGED <<salt, index, write_holder, write_waiters, ops, upserted>>
    /\ UNCHANGED nonIX

\* QdrantManager.search_code, lines 168-180, then EmbeddingsManager.search_code,
\* lines 135-165: format, release the read lock, sort, cut to `limit`
SearchReturn(t) ==
    /\ ipc[t] = "q_searched" /\ CanRun(t)
    /\ sem' = sem + 1
    /\ read_holder' = HandOver(read_waiters)
    /\ read_waiters' = Rest(read_waiters)
    /\ LET o == iop[t]
       IN  result' = [result EXCEPT ![t] =
                         [status |-> "returned", q |-> o.q, limit |-> o.limit,
                          qkind |-> o.qkind,
                          list |-> Returned(Formatted(o.q, o.hits), o.limit)]]
    /\ iop' = [iop EXCEPT ![t] = IdleOp]
    /\ ipc' = [Woken(ipc, read_waiters, "q_locked") EXCEPT ![t] = "idle"]
    /\ running' = NoTask
    /\ UNCHANGED <<salt, index, write_holder, write_waiters, ops, upserted>>
    /\ UNCHANGED nonIX

\* the application is started again: a new interpreter with another hash seed and
\* new locks; the collection under data/qdrant is kept
Restart(newSalt) ==
    /\ running = NoTask /\ \A t \in IxTasks : ipc[t] = "idle"
    /\ ops < MaxOps
    /\ newSalt # salt
    /\ salt' = newSalt
    /\ ops' = ops + 1
    /\ result' = [t \in IxTasks |-> NoResult]
    /\ UNCHANGED <<index, write_holder, write_waiters, read_holder, read_waiters, sem,
                   running, ipc, iop, upserted>>
    /\ UNCHANGED nonIX

IXStart ==
    /\ salt \in {0, 1}
    /\ index = {}
    /\ write_holder = NoTask
    /\ write_waiters = << >>
    /\ read_holder = NoTask
    /\ read_waiters = << >>
    /\ sem = OPERATION_SLOTS
    /\ running = NoTask
    /\ ipc = [t \in IxTasks |-> "idle"]
    /\ iop = [t \in IxTasks |-> IdleOp]
    /\ ops = 0
    /\ upserted = {}
    /\ result = [t \in IxTasks |-> NoResult]

NextIX ==
    \/ \E t \in IxTasks, pattern \in {"same", "distinct"}, n \in 1..MaxChunks,
          bad \in {EmptyText, 2} : StartProcess(t, pattern, n, bad)
    \/ \E t \in IxTasks : ProcessBatch(t)
    \/ \E t \in IxTasks, n \in 1..MaxItems, bs \in 1..2 : StartStore(t, n, bs)
    \/ \E t \in IxTasks : StoreAcquire(t)
    \/ \E t \in IxTasks, ok \in BOOLEAN : StoreBatch(t, ok)
    \/ \E t \in IxTasks : StoreBatchEnd(t)
    \/ \E t \in IxTasks : StoreReturn(t)
    \/ \E t \in IxTasks, q \in Queries, limit \in 1..MaxLimit, kind \in {"plain", "file"},
          embedOk \in BOOLEAN : StartSearch(t, q, limit, kind, embedOk)
    \/ \E t \in IxTasks : SearchAcquire(t)
    \/ \E t \in IxTasks, ok \in BOOLEAN : SearchQuery(t, ok)
    \/ \E t \in IxTasks : SearchReturn(t)
    \/ \E newSalt \in {0, 1} : Restart(newSalt)

----------------------------------------------------------------------------
\* ChatService.generate_response

ChatTasks == {"c1", "c2"}
CHAT_MIN_REQUEST_INTERVAL == 2
max_retries == 3
retry_delay == 2

ChatCanRun(t) == chat_running = t \/ chat_running = NoTask

\* line 138: wait_time = retry_delay * (attempt + 1)
WaitBeforeRetry_Constant(a) == retry_delay
WaitBeforeRetry(a) == retry_delay * (a + 1)

\* line 137: the failure is retried
Retried(outcome, a) == outcome = "overloaded" /\ a < max_retries - 1

\* leaving `async with self._request_lock` (line 75)
ChatRelease ==
    /\ chat_lock_holder' = HandOver(chat_lock_waiters)
    /\ chat_lock_waiters' = Rest(chat_lock_waiters)

\* repo_info = None; the other repo_info arguments are "{}", an empty dict, and
\* "repo A", the info of a repository
NoInfoGiven == "None"

\* lines 69-73: the exception raised (NoError when none) and self._last_repo_info
\* afterwards. A repo_info that differs from the last one is logged with
\* repo_info.get(..), which None does not have.
TrackRepoInfo(repo_info, last) ==
    IF repo_info = last THEN [error |-> NoError, last |-> last]
    ELSE IF repo_info = NoInfoGiven
    THEN [error |-> Raised("AttributeError"), last |-> last]
    ELSE [error |-> NoError, last |-> IF repo_info = "{}" THEN NoInfoGiven ELSE repo_info]

\* generate_response is called: lines 67-73, up to the request lock
GenerateResponse(t, repo_info) ==
    /\ chat_running = NoTask /\ cpc[t] = "idle" /\ calls < MaxCalls
    /\ calls' = calls + 1
    /\ outcomes' = [outcomes EXCEPT ![t] = << >>]
    /\ waits' = [waits EXCEPT ![t] = << >>]
    /\ attempt' = [attempt EXCEPT ![t] = 0]
    /\ last_repo_info' = TrackRepoInfo(repo_info, last_repo_info).last
    /\ issued' = [issued EXCEPT !.info[t] = repo_info, !.id[t] = calls + 1]
    /\ IF TrackRepoInfo(repo_info, last_repo_info).error = NoError
       THEN /\ cpc' = [cpc EXCEPT ![t] = "acquire"]
            /\ chat_running' = t
            /\ cresult' = [cresult EXCEPT ![t] = "none"]
       ELSE /\ cresult' = [cresult EXCEPT ![t] = "raised"]
            /\ UNCHANGED <<cpc, chat_running>>
    /\ UNCHANGED <<now, chat_last_request_time, chat_lock_holder, chat_lock_waiters, cwake>>
    /\ UNCHANGED nonChat

\* line 75: async with self._request_lock
ChatAcquire(t) ==
    /\ cpc[t] = "acquire" /\ ChatCanRun(t)
    /\ IF chat_lock_holder = NoTask /\ chat_lock_waiters = << >>
       THEN /\ chat_lock_holder' = t
            /\ cpc' = [cpc EXCEPT ![t] = "locked"]
            /\ chat_running' = t
            /\ UNCHANGED chat_lock_waiters
       ELSE /\ chat_lock_waiters' = Append(chat_lock_waiters, t)
            /\ cpc' = [cpc EXCEPT ![t] = "lock_wait"]
            /\ chat_running' = NoTask
            /\ UNCHANGED chat_lock_holder
    /\ UNCHANGED <<now, chat_last_request_time, attempt, cwake, outcomes, waits, cresult, calls,
                   last_repo_info, issued>>
    /\ UNCHANGED nonChat

\* lines 76-80: the spacing to the last successful request; with no sleep needed
\* the lock is released and the call goes on to its first model request
ChatSpacing(t) ==
    /\ cpc[t] = "locked" /\ ChatCanRun(t) /\ chat_lock_holder = t
    /\ LET time_since_last_request == now - chat_last_request_time
       IN  IF time_since_last_request < CHAT_MIN_REQUEST_INTERVAL
           THEN /\ cwake' = [cwake EXCEPT ![t] =
                                 now + (CHAT_MIN_REQUEST_INTERVAL - time_since_last_request)]
                /\ cpc' = [cpc EXCEPT ![t] = "spacing"]
                /\ chat_running' = NoTask
                /\ UNCHANGED <<chat_lock_holder, chat_lock_waiters>>
           ELSE /\ ChatRelease
                /\ cpc' = [Woken(cpc, chat_lock_waiters, "locked") EXCEPT ![t] = "request"]
                /\ chat_running' = t
                /\ UNCHANGED cwake
    /\ UNCHANGED <<now, chat_last_request_time, attempt, outcomes, waits, cresult, calls,
                   last_repo_info, issued>>
    /\ UNCHANGED nonChat

\* line 80 returns from asyncio.sleep: the lock is released, lines 82-104 follow
ChatSpaced(t) ==
    /\ cpc[t] = "spacing" /\ chat_running = NoTask /\ now >= cwake[t]
    /\ ChatRelease
    /\ cpc' = [Woken(cpc, chat_lock_waiters, "locked") EXCEPT ![t] = "request"]
    /\ chat_running' = t
    /\ UNCHANGED <<now, chat_last_request_time, attempt, cwake, outcomes, waits, cresult, calls,
                   last_repo_info, issued>>
    /\ UNCHANGED nonChat

\* lines 106-141: one pass of the retry loop: the model request and what follows
\* its outcome
Attempt(t, outcome) ==
    /\ cpc[t] = "request" /\ ChatCanRun(t)
    /\ outcomes' = [outcomes EXCEPT ![t] = Append(@, outcome)]
    /\ IF outcome = "ok"
       THEN /\ chat_last_request_time' = now
            /\ cresult' = [cresult EXCEPT ![t] = "returned"]
            /\ cpc' = [cpc EXCEPT ![t] = "idle"]
            /\ UNCHANGED <<cwake, waits>>
       ELSE IF Retried(outcome, attempt[t])
       THEN /\ waits' = [waits EXCEPT ![t] = Append(@, WaitBeforeRetry(attempt[t]))]
            /\ cwake' = [cwake EXCEPT ![t] = now + WaitBeforeRetry(attempt[t])]
            /\ cpc' = [cpc EXCEPT ![t] = "backoff"]
            /\ UNCHANGED <<chat_last_request_time, cresult>>
       ELSE /\ cresult' = [cresult EXCEPT ![t] = "raised"]
            /\ cpc' = [cpc EXCEPT ![t] = "idle"]
            /\ UNCHANGED <<chat_last_request_time, cwake, waits>>
    /\ chat_running' = NoTask
    /\ issued' = [issued EXCEPT !.call = issued.id[t], !.time = now,
                                !.gap = IF issued.call \in {0, issued.id[t]}
                                        THEN -1 ELSE now - issued.time]
    /\ UNCHANGED <<now, chat_lock_holder, chat_lock_waiters, attempt, calls, last_repo_info>>
    /\ UNCHANGED nonChat

\* line 140-141: asyncio.sleep(wait_time) returns, `continue`
BackoffDone(t) ==
    /\ cpc[t] = "backoff" /\ chat_running = NoTask /\ now >= cwake[t]
    /\ attempt' = [attempt EXCEPT ![t] = @ + 1]
    /\ cpc' = [cpc EXCEPT ![t] = "request"]
    /\ chat_running' = t
    /\ UNCHANGED <<now, chat_last_request_time, chat_lock_holder, chat_lock_waiters, cwake,
                   outcomes, waits, cresult, calls, last_repo_info, issued>>
    /\ UNCHANGED nonChat

\* time passes while a call sleeps
TickChat ==
    /\ chat_running = NoTask
    /\ \E t \in ChatTasks : cpc[t] \in {"spacing", "backoff"} /\ now < cwake[t]
    /\ now < MaxChatTime
    /\ now' = now + 1
    /\ UNCHANGED chatVars
    /\ UNCHANGED nonChat

ChatStart ==
    /\ chat_last_request_time = 0
    /\ chat_lock_holder = NoTask
    /\ chat_lock_waiters = << >>
    /\ chat_running = NoTask
    /\ cpc = [t \in ChatTasks |-> "idle"]
    /\ attempt = [t \in ChatTasks |-> 0]
    /\ cwake = [t \in ChatTasks |-> 0]
    /\ outcomes = [t \in ChatTasks |-> << >>]
    /\ waits = [t \in ChatTasks |-> << >>]
    /\ cresult = [t \in ChatTasks |-> "none"]
    /\ calls = 0
    /\ last_repo_info = NoInfoGiven
    /\ issued = [info |-> [t \in ChatTasks |-> NoInfoGiven], id |-> [t \in ChatTasks |-> 0],
                 call |-> 0, time |-> 0, gap |-> -1]

NextChat ==
    \/ \E t \in ChatTasks, repo_info \in {NoInfoGiven, "{}", "repo A"} :
           GenerateResponse(t, repo_info)
    \/ \E t \in ChatTasks : ChatAcquire(t)
    \/ \E t \in ChatTasks : ChatSpacing(t)
    \/ \E t \in ChatTasks : ChatSpaced(t)
    \/ \E t \in ChatTasks, outcome \in {"ok", "overloaded", "fatal"} : Attempt(t, outcome)
    \/ \E t \in ChatTasks : BackoffDone(t)
    \/ TickChat

----------------------------------------------------------------------------
\* CodeProcessor: strings are sequences of characters

NL == "\n"

\* content.split('\n'): the text between the newlines, at least one line
\* (the lines of str[lo..hi], from the lines of its two halves: the last line of
\* the first half goes on in the first line of the second)
RECURSIVE SplitRange(_, _, _)
SplitRange(str, lo, hi) ==
    IF lo > hi THEN << << >> >>
    ELSE IF lo = hi THEN (IF str[lo] = NL THEN << << >>, << >> >> ELSE << << str[lo] >> >>)
    ELSE LET mid == (lo + hi) \div 2
             l == SplitRange(str, lo, mid)
             r == SplitRange(str, mid + 1, hi)
         IN  SubSeq(l, 1, Len(l) - 1) \o << l[Len(l)] \o r[1] >> \o SubSeq(r, 2, Len(r))

Split(str) == SplitRange(str, 1, Len(str))

\* '\n'.join(lines)
RECURSIVE JoinRange(_, _, _)
JoinRange(lines, lo, hi) ==
    IF lo > hi THEN << >>
    ELSE IF lo = hi THEN lines[lo]
    ELSE LET mid == (lo + hi) \div 2
         IN  JoinRange(lines, lo, mid) \o << NL >> \o JoinRange(lines, mid + 1, hi)

Join(lines) == JoinRange(lines, 1, Len(lines))

Contains(str, ch) == \E i \in 1..Len(str) : str[i] = ch

\* the largest index of ch in str, 0 when there is none
LastIndex(str, ch) ==
    IF Contains(str, ch) THEN CHOOSE i \in 1..Len(str) :
                                  str[i] = ch /\ \A j \in (i + 1)..Len(str) : str[j] # ch
    ELSE 0

\* Path(file_path).suffix: from the last dot of the last path component, unless
\* that dot starts or ends the component
PathSuffix(path) ==
    LET name == SubSeq(path, LastIndex(path, "/") + 1, Len(path))
        dot == LastIndex(name, ".")
    IN  IF dot <= 1 \/ dot = Len(name) THEN << >> ELSE SubSeq(name, dot, Len(name))

\* str.lower()
LowerChar(ch) ==
    CASE ch = "P" -> "p" [] ch = "Y" -> "y" [] ch = "J" -> "j" [] ch = "S" -> "s"
      [] ch = "T" -> "t" [] ch = "X" -> "x" [] OTHER -> ch
LowerStr(str) == [i \in 1..Len(str) |-> LowerChar(str[i])]

\* one (content, metadata) tuple of the returned list; 0 for a key that is absent
Chunk(text, file, type, line_start, line_end, code_type) ==
    [content |-> text, file |-> file, type |-> type, line_start |-> line_start,
     line_end |-> line_end, code_type |-> code_type]

chunk_size == 50

\* generic chunks whose line_end is not cut at the last line
ProcessGeneric_Uncut(path, text) ==
    LET lines == Split(text)
        starts == (Len(lines) + chunk_size - 1) \div chunk_size
    IN  [k \in 1..starts |->
            LET i == (k - 1) * chunk_size
            IN  Chunk(Join(Slice(lines, i + 1, i + chunk_size)), path, "generic",
                      i + 1, i + chunk_size, "unknown")]

\* _process_generic(self, file_path, content), lines 223-243
ProcessGeneric(path, text) ==
    LET lines == Split(text)
        starts == (Len(lines) + chunk_size - 1) \div chunk_size
    IN  [k \in 1..starts |->
            LET i == (k - 1) * chunk_size
            IN  Chunk(Join(Slice(lines, i + 1, i + chunk_size)), path, "generic",
                      i + 1, Min(i + chunk_size, Len(lines)), "unknown")]

\* Python source is written with one character per construct:
\*   "i" an import statement, "d" the header line of a def, " " the indentation of
\*   a line of a def's body, "x" a simple statement, "?" a syntax error
IsImport(line) == line = << "i" >>
IsDef(line) == line = << "d" >>
IsIndented(line) == line # << >> /\ line[1] = " "

\* ast.parse(content) succeeds
Parses(text) ==
    LET lines == Split(text)
    IN  \A k \in 1..Len(lines) :
           /\ ~Contains(lines[k], "?")
           /\ IsDef(lines[k]) => k < Len(lines) /\ IsIndented(lines[k + 1])
           /\ IsIndented(lines[k]) =>
                 k > 1 /\ (IsDef(lines[k - 1]) \/ IsIndented(lines[k - 1]))

\* node.end_lineno of the def whose header is line k
EndLineno(lines, k) ==
    CHOOSE e \in k..Len(lines) :
        /\ \A j \in (k + 1)..e : IsIndented(lines[j])
        /\ e < Len(lines) => ~IsIndented(lines[e + 1])

\* the Python text a construct stands for: "d" is `def add(a, b):`, " " four
\* blanks, "x" is `return a + b`, "i" is `import os`; a newline is one character
SourceText(ch) ==
    CASE ch = "d" -> << "d", "e", "f", " ", "a", "d", "d", "(", "a", ",", " ", "b", ")", ":" >>
      [] ch = " " -> << " ", " ", " ", " " >>
      [] ch = "x" -> << "r", "e", "t", "u", "r", "n", " ", "a", " ", "+", " ", "b" >>
      [] ch = "i" -> << "i", "m", "p", "o", "r", "t", " ", "o", "s" >>
      [] OTHER    -> << ch >>

\* len(chunk_content)
RECURSIVE SourceLength(_)
SourceLength(text) ==
    IF text = << >> THEN 0 ELSE Len(SourceText(Head(text))) + SourceLength(Tail(text))

\* node.name of the def of SourceText
DefName == "add"

\* _calculate_importance, in hundredths. In units of 1/2500 the length score
\* times 0.2 is 500 - |250 - min(500, length)| and the base score is 25 times its
\* hundredths; round(.., 2) rounds the sum to the nearest multiple of 25 (a tie
\* does not occur: 25 is odd).
calculate_importance(chunk_type, has_decorators, has_docstring, length) ==
    LET base_score == CASE chunk_type = "class"          -> 90
                        [] chunk_type = "async_function" -> 85
                        [] chunk_type = "function"       -> 80
                        [] chunk_type = "imports"        -> 70
                        [] OTHER                         -> 50
        base == base_score + (IF has_decorators THEN 10 ELSE 0)
                           + (IF has_docstring THEN 10 ELSE 0)
        Abs(x) == IF x < 0 THEN -x ELSE x
        length_score == 500 - Abs(250 - Min(500, length))
        final_score == Min(2500, 25 * base + length_score)
    IN  (2 * final_score + 25) \div 50

\* lines 84-125: the chunks of the function definitions, in the order ast.walk
\* meets them; the defs of this source have neither decorators nor a docstring
DefChunks(path, lines) ==
    LET defs == SelectSeq([k \in 1..Len(lines) |-> k], LAMBDA k : IsDef(lines[k]))
    IN  [m \in 1..Len(defs) |->
            LET chunk_content == Join(SubSeq(lines, defs[m], EndLineno(lines, defs[m])))
            IN  Chunk(chunk_content, path, "function", defs[m],
                      EndLineno(lines, defs[m]), "python")
                @@ [name |-> DefName,
                    importance |-> calculate_importance("function", FALSE, FALSE,
                                                        SourceLength(chunk_content))]]

\* _extract_python_imports and lines 72-82: the imports chunk, when there are imports
ImportsChunk(path, lines) ==
    LET imports == SelectSeq(lines, IsImport)
    IN  IF imports = << >> THEN << >>
        ELSE << Chunk(Join(imports), path, "imports", 1, 0, "python_imports") >>

\* _process_python(self, file_path, content), lines 65-131; when parsing fails
\* the except clause returns the generic chunks
ProcessPython(path, text) ==
    IF Parses(text)
    THEN ImportsChunk(path, Split(text)) \o DefChunks(path, Split(text))
    ELSE ProcessGeneric(path, text)

\* JavaScript / TypeScript source is written with one character per construct:
\*   "m" an import statement (a whole line), "c" `class X`, "f" `function x`,
\*   "a" `const x = (`, "r" a React component header `function X(..) {.. return (`,
\*   "n" `interface X`, "{" and "}" braces, "x" anything else
MatchesClass(line) == Contains(line, "c")
MatchesFunction(line) == Contains(line, "f") \/ Contains(line, "a") \/ Contains(line, "r")
MatchesComponent(line) == Contains(line, "r")
IsJsImport(line) == line = << "m" >>

\* _determine_chunk_type, lines 337-350
DetermineChunkType(text) ==
    IF Contains(text, "c") THEN "class"
    ELSE IF Contains(text, "f") \/ Contains(text, "r") THEN "function"
    ELSE IF Contains(text, "a") THEN "arrow_function"
    ELSE IF Contains(text, "n") THEN "interface"
    ELSE "generic"

\* _process_chunk(chunk_lines, file_path, line_number), lines 315-335
ProcessChunk(chunk_lines, path, line_number) ==
    << Chunk(Join(chunk_lines), path, DetermineChunkType(Join(chunk_lines)),
             line_number - Len(chunk_lines) + 1, line_number, "javascript") >>

\* _extract_js_imports and the imports chunk: the imported module names, one a line
JsImportsChunk(path, text, code_type) ==
    LET found == SelectSeq(Split(text), IsJsImport)
    IN  IF found = << >> THEN << >>
        ELSE << Chunk(Join([i \in 1..Len(found) |-> << "M" >>]), path, "imports",
                      0, 0, code_type) >>

\* the indices 1..n in order
Indices(n) == [k \in 1..n |-> k]

\* _process_javascript(self, file_path, content, is_react), lines 133-182. The loop
\* starts a new current_chunk at every line that matches the class or the function
\* pattern (a component header matches the function pattern); the chunk before it
\* is handed to _process_chunk with the number of its last line, except that a
\* component header in a React file drops it; lines before the first such line
\* are in no chunk; the last chunk ends at the last line
ProcessJavascript(path, text, is_react) ==
    LET lines == Split(text)
        starts == SelectSeq(Indices(Len(lines)),
                            LAMBDA k : MatchesClass(lines[k]) \/ MatchesFunction(lines[k]))
        Last(j) == IF j < Len(starts) THEN starts[j + 1] - 1 ELSE Len(lines)
        Dropped(j) == j < Len(starts) /\ is_react /\ MatchesComponent(lines[starts[j + 1]])
        kept == SelectSeq(Indices(Len(starts)), LAMBDA j : ~Dropped(j))
    IN  JsImportsChunk(path, text, "javascript_imports")
        \o [m \in 1..Len(kept) |->
               ProcessChunk(SubSeq(lines, starts[kept[m]], Last(kept[m])), path,
                            Last(kept[m]))[1]]

\* _extract_block(content, start_pos), lines 293-313: the text from the first "{"
\* to the "}" that closes it; None when it is never closed; stack.pop() raises
\* IndexError on a "}" with nothing open
RECURSIVE ExtractBlockFrom(_, _, _, _, _)
ExtractBlockFrom(text, i, depth, in_block, block) ==
    IF i > Len(text) THEN [status |-> "none", block |-> << >>]
    ELSE IF text[i] = "}" /\ depth = 0 THEN [status |-> "raised", block |-> << >>]
    ELSE LET d == IF text[i] = "{" THEN depth + 1
                  ELSE IF text[i] = "}" THEN depth - 1 ELSE depth
             inb == in_block \/ text[i] = "{"
             blk == IF inb THEN Append(block, text[i]) ELSE block
         IN  IF inb /\ d = 0 THEN [status |-> "block", block |-> blk]
             ELSE ExtractBlockFrom(text, i + 1, d, inb, blk)

ExtractBlock(text, start_pos) == ExtractBlockFrom(text, start_pos, 0, FALSE, << >>)

\* _process_typescript, lines 200-213: one chunk per `interface` that has a block
InterfaceChunks(path, text) ==
    LET found == SelectSeq(Indices(Len(text)),
                           LAMBDA pos : /\ text[pos] = "n"
                                        /\ ExtractBlock(text, pos).status = "block")
    IN  [m \in 1..Len(found) |->
            Chunk(ExtractBlock(text, found[m]).block, path, "interface", 0, 0, "typescript")]

\* _process_typescript raises: some `interface` is followed by an unopened "}"
TypescriptRaises(text) ==
    \E pos \in 1..Len(text) : text[pos] = "n" /\ ExtractBlock(text, pos).status = "raised"

\* _process_typescript(self, file_path, content, is_react), lines 186-221
ProcessTypescript(path, text, is_react) ==
    JsImportsChunk(path, text, "typescript_imports")
        \o InterfaceChunks(path, text)
        \o ProcessJavascript(path, text, is_react)

DotPy == << ".", "p", "y" >>
DotJs == << ".", "j", "s" >>
DotJsx == << ".", "j", "s", "x" >>
DotTs == << ".", "t", "s" >>
DotTsx == << ".", "t", "s", "x" >>

\* process_file(self, file_path, content), lines 46-63
process_file(path, text) ==
    LET ext == LowerStr(PathSuffix(path))
    IN  IF ext = DotPy THEN ProcessPython(path, text)
        ELSE IF ext \in {DotJs, DotJsx} THEN ProcessJavascript(path, text, ext = DotJsx)
        ELSE IF ext \in {DotTs, DotTsx}
        THEN IF TypescriptRaises(text) THEN ProcessGeneric(path, text)
             ELSE ProcessTypescript(path, text, ext = DotTsx)
        ELSE ProcessGeneric(path, text)

\* the file paths process_file is called with
FilePaths ==
    { << "a", ".", "p", "y" >>, << "s", "/", "a", ".", "P", "Y" >>,
      << "a", ".", "j", "s" >>, << "a", ".", "j", "s", "x" >>,
      << "a", ".", "t", "s" >>, << "a", ".", "t", "s", "x" >>,
      << "a", ".", "m", "d" >>, << "m", "k" >>, << ".", "p", "y" >> }

\* the texts process_file is called with: n lines of one shape ...
ShapeLines(shape, n) ==
    CASE shape = "blank"   -> [i \in 1..(n + 1) |-> << >>]
      [] shape = "stmts"   -> [i \in 1..n |-> << "x" >>]
      [] shape = "trail"   -> [i \in 1..(n + 1) |-> IF i <= n THEN << "x" >> ELSE << >>]
      [] shape = "broken"  -> [i \in 1..n |-> IF i = 1 THEN << "d", "?" >> ELSE << "x" >>]

\* ... and a few short sources
Sources ==
    { << "i", NL, "d", NL, " ", "x", NL, "x" >>,
      << "d" >>,
      << "d", NL, " ", "x" >>,
      << "m", NL, "c", NL, "x", NL, "f", NL, "x" >>,
      << "x", NL, "r", NL, "x" >>,
      << "c", NL, "x", NL, "r", NL, "x" >>,
      << "n", "{", "x", "}", NL, "a" >>,
      << "n", "x", "}" >> }

Contents ==
    {Join(ShapeLines(shape, n)) : shape \in {"blank", "stmts", "trail", "broken"},
                                  n \in 0..MaxLines} \cup Sources

\* process_file runs
ProcessFile ==
    /\ pf_state = "called"
    /\ chunks' = process_file(file_path, content)
    /\ pf_state' = "returned"
    /\ UNCHANGED <<file_path, content>>
    /\ UNCHANGED nonPF

PFIdle ==
    /\ pf_state = "idle"
    /\ file_path = << >>
    /\ content = << >>
    /\ chunks = << >>

PFStart ==
    /\ pf_state = "called"
    /\ file_path \in FilePaths
    /\ content \in Contents
    /\ chunks = << >>

NextPF == ProcessFile

----------------------------------------------------------------------------
\* ContextStorage.get_related_contexts

ContextIds == {"a", "b", "c", "d"}
\* get_context returns None: no entry under the id
Absent == << "absent" >>

\* relationships lists: up to two different ids
Relationships ==
    {<< >>} \cup {<< x >> : x \in ContextIds}
            \cup ({<< x, y >> : x, y \in ContextIds} \ {<< x, x >> : x \in ContextIds})

\* the stores get_related_contexts is called on: a, b and c are stored with any
\* relationships, d is not stored, or stored with no link or a link back to a
Stores ==
    {[a |-> ra, b |-> rb, c |-> rc, d |-> rd] :
        ra \in Relationships, rb \in Relationships, rc \in Relationships,
        rd \in {Absent, << >>, << "a" >>}}

\* get_related_contexts(self, element_id, max_depth), lines 115-140: traverse is a
\* depth-first walk that returns at once for a depth beyond max_depth or an id in
\* `visited`, marks the id visited, and for a stored entry appends it to `related`
\* and walks its relationships in order at depth + 1
get_related_contexts(entries, id, depth_limit) ==
    LET RECURSIVE traverse(_, _, _)
        RECURSIVE each(_, _, _)
        traverse(st, current_id, depth) ==
            IF depth > depth_limit \/ current_id \in st.visited THEN st
            ELSE IF entries[current_id] = Absent
            THEN [st EXCEPT !.visited = @ \cup {current_id}]
            ELSE each([visited |-> st.visited \cup {current_id},
                       related |-> Append(st.related, current_id)],
                      entries[current_id], depth + 1)
        each(st, rels, depth) ==
            IF rels = << >> THEN st
            ELSE each(traverse(st, Head(rels), depth), Tail(rels), depth)
    IN  traverse([visited |-> {}, related |-> << >>], id, 0).related

\* get_related_contexts runs
GetRelatedContexts ==
    /\ cs_state = "called"
    /\ related' = get_related_contexts(context_cache, element_id, max_depth)
    /\ cs_state' = "returned"
    /\ UNCHANGED <<context_cache, element_id, max_depth>>
    /\ UNCHANGED nonCS

CSIdle ==
    /\ cs_state = "idle"
    /\ context_cache = [x \in ContextIds |-> Absent]
    /\ element_id = "a"
    /\ max_depth = 0
    /\ related = << >>

CSStart ==
    /\ cs_state = "called"
    /\ context_cache \in Stores
    /\ element_id \in {"a", "d"}
    /\ max_depth \in 0..MaxDepth
    /\ related = << >>

NextCS == GetRelatedContexts

----------------------------------------------------------------------------
\* Specifications

GHStart ==
    /\ head = [b \in HostBranches |-> IF b = "main" THEN 1 ELSE 2]
    /\ fresh = 3
    /\ current_commit_sha = None
    /\ last_request_time = 0
    /\ lock_holder = NoTask
    /\ lock_waiters = << >>
    /\ content_cache = {}
    /\ gpc = IdleTasks
    /\ gwake = [t \in Subtasks |-> 0]
    /\ greq = [t \in Subtasks |-> NoPath]
    /\ gref = [t \in Subtasks |-> None]
    /\ run = [id |-> 0, url |-> << >>, branch |-> "", path |-> "", phase |-> "idle",
              verified |-> "no", captured |-> None, start_head |-> None,
              host_calls |-> << >>, branches_listed |-> FALSE, embed_ok |-> TRUE,
              info |-> NoInfo, error |-> NoError]
    /\ frames = << >>
    /\ structure = EmptyStructure
    /\ deps_i = 1
    /\ dependencies = {}
    /\ readme_i = 1
    /\ readme = ""
    /\ run_commits = {}
    /\ branch_lookups = 0
    /\ last_call = -1
    /\ call_gap = -1
    /\ tg = NoCall

NextTG ==
    \/ \E p \in {"setup.py", "src"}, ref \in {RefFor(1, ""), RefFor(None, "dev")},
          ok \in BOOLEAN, lookupOk \in BOOLEAN :
           TrackedGetContents(p, ref, ok, lookupOk)
    \/ \E d \in {CACHE_TTL \div 2 - 1, CACHE_TTL \div 2} : Elapse(d)
    \/ \E b \in HostBranches : HeadMoves(b)

NextGH ==
    \/ \E url \in Urls, lookupOk \in BOOLEAN, listOk \in BOOLEAN :
           AnalyzeRepository(url, lookupOk, listOk)
    \/ \E t \in Subtasks, lookupOk \in BOOLEAN : Fetch(t, lookupOk)
    \/ \E t \in Subtasks, lookupOk \in BOOLEAN : Granted(t, lookupOk)
    \/ \E t \in Subtasks, lookupOk \in BOOLEAN : Wake(t, lookupOk)
    \/ \E t \in Subtasks, ok \in BOOLEAN, lookupOk \in BOOLEAN : Complete(t, ok, lookupOk)
    \/ \E embedOk \in BOOLEAN : FinishRun(embedOk)
    \/ \E b \in HostBranches : HeadMoves(b)
    \/ TickGH


vars == <<now, ghVars, tgVars, ixVars, chatVars, pfVars, csVars>>

InitGH == now = StartTime /\ GHStart /\ IXStart /\ salt = 0 /\ ChatStart /\ PFIdle /\ CSIdle

SpecGH == InitGH /\ [][NextGH]_vars

\* The analysis tasks under the scheduling of the event loop: a task that can run
\* is run, a sleep ends when its time has come, time passes, and every request in
\* flight comes back (with a result or an exception).
NextGHLive ==
    \/ \E url \in Urls, lookupOk \in BOOLEAN, listOk \in BOOLEAN :
           AnalyzeRepository(url, lookupOk, listOk)
    \/ \E t \in Subtasks, lookupOk \in BOOLEAN : Fetch(t, lookupOk)
    \/ \E t \in Subtasks, lookupOk \in BOOLEAN : Granted(t, lookupOk)
    \/ \E t \in Subtasks, lookupOk \in BOOLEAN : Wake(t, lookupOk)
    \/ \E t \in Subtasks, ok \in BOOLEAN, lookupOk \in BOOLEAN : Complete(t, ok, lookupOk)
    \/ \E embedOk \in BOOLEAN : FinishRun(embedOk)
    \/ \E b \in HostBranches : HeadMoves(b)
    \/ TickOn

FairGH ==
    /\ WF_vars(TickOn)
    /\ \A t \in Subtasks :
          /\ WF_vars(\E lookupOk \in BOOLEAN : Fetch(t, lookupOk))
          /\ WF_vars(\E lookupOk \in BOOLEAN : Granted(t, lookupOk))
          /\ WF_vars(\E lookupOk \in BOOLEAN : Wake(t, lookupOk))
          /\ WF_vars(\E ok \in BOOLEAN, lookupOk \in BOOLEAN : Complete(t, ok, lookupOk))

SpecGHLive == InitGH /\ [][NextGHLive]_vars /\ FairGH

InitIX == now = StartTime /\ GHStart /\ IXStart /\ ChatStart /\ PFIdle /\ CSIdle

SpecIX == InitIX /\ [][NextIX]_vars

InitChat == now = StartTime /\ GHStart /\ IXStart /\ salt = 0 /\ ChatStart /\ PFIdle /\ CSIdle

SpecChat == InitChat /\ [][NextChat]_vars

InitPF == now = StartTime /\ GHStart /\ IXStart /\ salt = 0 /\ ChatStart /\ PFStart /\ CSIdle

SpecPF == InitPF /\ [][NextPF]_vars

InitTG == now = StartTime /\ GHStart /\ IXStart /\ salt = 0 /\ ChatStart /\ PFIdle /\ CSIdle

SpecTG == InitTG /\ [][NextTG]_vars

InitCS == now = StartTime /\ GHStart /\ IXStart /\ salt = 0 /\ ChatStart /\ PFIdle /\ CSStart

SpecCS == InitCS /\ [][NextCS]_vars

----------------------------------------------------------------------------
\* Claims about GitHubService

\* C1 (commit pinning): in a run whose URL names a branch and that got past
\* branch verification (by the lookup or by the branch listing), every content
\* request is served from the one commit the branch had at the start of the run.
C1_CommitPinning ==
    (run.branch # "" /\ run.verified \in {"lookup", "listing"})
        => run_commits \subseteq {run.start_head}

\* C2 (rate limiter spacing): host calls are made one at a time and two
\* consecutive calls start at least MIN_REQUEST_INTERVAL apart, whatever the
\* outcome of the earlier one.
C2_RateLimiterSpacing ==
    /\ Cardinality({t \in Subtasks : gpc[t] = "inflight"}) <= 1
    /\ call_gap = -1 \/ call_gap >= MIN_REQUEST_INTERVAL

\* C3: every chunk text that process_repository has handed to store_code_vectors,
\* however often and from whichever file, in one call or in several, before or
\* after a restart, has exactly one point in the index: all its upserts used one id.
C3_IdempotentChunkIdentity ==
    \A p \in upserted :
        Cardinality({pt \in index : \E u \in upserted : u.raw = p.raw /\ u.id = pt.id}) = 1

\* C3 witness: the same chunk text was upserted twice (as a chunk of two files)
\* and the calls have returned.
C3_Witness ==
    /\ \E p, u \in upserted : p.raw = u.raw /\ p.file # u.file
    /\ \A t \in IxTasks : ipc[t] = "idle"

\* C4: two chunks that process_repository stored and whose texts differ got
\* different point ids.
C4_DistinctContentDistinctPoint ==
    \A p, u \in upserted : p.raw # u.raw => p.id # u.id

\* a store_code_vectors call between its first batch upsert and its last
StoreInProgress(t) ==
    \/ ipc[t] = "s_upserted"
    \/ ipc[t] = "s_loop" /\ 1 < iop[t].si /\ iop[t].si <= Len(iop[t].items)

\* a call that is executing its index operation (client.upsert / client.search)
InIndexOperation(t) == ipc[t] \in {"s_upserted", "q_searched"}

\* C5: while one store_code_vectors call is between its first batch upsert and its
\* last, no other store or search call executes its index operation.
C5_WritersExcludeEveryone ==
    \A t \in IxTasks : StoreInProgress(t) =>
        \A u \in IxTasks \ {t} : ~InIndexOperation(u)

\* C5 witness: a store call has written some of its batches and not the last one,
\* the index holds the written part, and the other task has searched before.
C5_Witness ==
    \E t \in IxTasks :
        /\ ipc[t] = "s_loop" /\ 1 < iop[t].si /\ iop[t].si <= Len(iop[t].items)
        /\ index # {}
        /\ \E u \in IxTasks \ {t} : result[u].status = "returned"

\* C6: when no store call is in progress, a search that is inside its read section
\* does not keep a second search out: the read lock still admits a search.
C6_ReadersDoNotBlock ==
    \A t \in IxTasks :
        (/\ ipc[t] \in {"q_locked", "q_searched"}
         /\ \A u \in IxTasks : ipc[u] \notin {"s_acquire", "s_wait", "s_loop", "s_upserted"})
            => read_holder = NoTask

\* a call between its first model request and the end of its last attempt
InGeneration(t) == cpc[t] \in {"request", "backoff"} /\ outcomes[t] # << >>

\* C7: at most one generate_response call of a ChatService is between issuing its
\* first model request and finishing its last attempt, waits between retries included.
C7_SingleOutstandingRequest ==
    Cardinality({t \in ChatTasks : InGeneration(t)}) <= 1

\* C8: in one generate_response call every model request but the last failed with
\* 'overloaded', each retry waited longer than the one before, there are at most 3
\* requests, and the call has raised exactly when its last request failed with
\* something else than 'overloaded' or was the third to fail.
C8_RetryPolicy ==
    \A t \in ChatTasks :
        LET n == Len(outcomes[t]) IN
        /\ n <= max_retries
        /\ \A i \in 1..(n - 1) : outcomes[t][i] = "overloaded"
        /\ \A i \in 1..(Len(waits[t]) - 1) : waits[t][i] < waits[t][i + 1]
        /\ Len(waits[t]) = (IF cpc[t] = "idle" /\ n > 0 THEN n - 1 ELSE n)
        /\ (n > 0 /\ cpc[t] = "idle") =>
              cresult[t] = (IF outcomes[t][n] = "ok" THEN "returned" ELSE "raised")
        /\ (n > 0 /\ outcomes[t][n] = "fatal") => cpc[t] = "idle"
        /\ (n = max_retries /\ outcomes[t][n] # "ok") => cpc[t] = "idle"
        /\ (n > 0 /\ n < max_retries /\ outcomes[t][n] = "overloaded") => cpc[t] # "idle"

\* C8 witness: a call has raised after three 'overloaded' failures and two waits.
C8_Witness ==
    \E t \in ChatTasks :
        /\ cresult[t] = "raised" /\ cpc[t] = "idle"
        /\ outcomes[t] = <<"overloaded", "overloaded", "overloaded">>
        /\ Len(waits[t]) = 2

\* the number of lines of a text
LineCount(text) == Len(Split(text))

\* the inputs C10 is about: Python parsing fails, or the extension is not recognized
FallsBack(path, text) ==
    LET ext == LowerStr(PathSuffix(path))
    IN  \/ ext = DotPy /\ ~Parses(text)
        \/ ext \notin {DotPy, DotJs, DotJsx, DotTs, DotTsx}

\* C10: when Python parsing fails or the extension is not recognized, process_file
\* returns generic chunks of at most 50 lines whose line ranges start at 1, follow
\* each other without gap or overlap and end at the last line of the input, and
\* the chunk contents joined with newlines are the input.
C10_FallbackSafety ==
    (pf_state = "returned" /\ FallsBack(file_path, content)) =>
        /\ \A k \in 1..Len(chunks) :
              /\ chunks[k].type = "generic"
              /\ LineCount(chunks[k].content) <= chunk_size
              /\ chunks[k].line_start = (IF k = 1 THEN 1 ELSE chunks[k - 1].line_end + 1)
              /\ chunks[k].line_start <= chunks[k].line_end
        /\ chunks # << >>
        /\ chunks[Len(chunks)].line_end = LineCount(content)
        /\ Join([k \in 1..Len(chunks) |-> chunks[k].content]) = content

\* C10 witness: a Python file of more than 100 lines that does not parse came back
\* as three generic chunks.
C10_Witness ==
    /\ pf_state = "returned"
    /\ LowerStr(PathSuffix(file_path)) = DotPy /\ ~Parses(content)
    /\ LineCount(content) > 2 * chunk_size
    /\ Len(chunks) = 3

NonIncreasing(list) ==
    \A i \in 1..(Len(list) - 1) : list[i].similarity_score >= list[i + 1].similarity_score

\* C9: the list EmbeddingsManager.search_code returns has non-increasing scores, no
\* score below the threshold of that search, and at most `limit` entries.
C9_SearchOrdering ==
    \A t \in IxTasks : result[t].status = "returned" =>
        /\ NonIncreasing(result[t].list)
        /\ \A i \in 1..Len(result[t].list) :
              result[t].list[i].similarity_score >= SearchThreshold(result[t].qkind)
        /\ Len(result[t].list) <= result[t].limit

\* C9 witness: a search returned as many results as its limit of two allows while
\* the index held a third point that reaches the threshold and one that does not.
C9_Witness ==
    \E t \in IxTasks :
        /\ result[t].status = "returned"
        /\ result[t].limit = 2 /\ Len(result[t].list) = 2
        /\ \E pt \in index : Score(result[t].q, pt) < SearchThreshold(result[t].qkind)
        /\ Cardinality({pt \in index :
               Score(result[t].q, pt) >= SearchThreshold(result[t].qkind)}) > 2

----------------------------------------------------------------------------
\* Claims about the errors of analyze_repository

\* C11 (branch not found): when the URL names a branch that the host cannot
\* resolve and that is not in the branch listing the host returned, the call
\* fails with the branch-not-found error, the error carries the branch names of
\* the listing, and no content was requested.
C11_BranchNotFound ==
    (run.phase = "failed" /\ run.branch # "" /\ run.branch \notin HostBranches
         /\ run.branches_listed)
        => /\ run.error.msg = "Branch not found in repository"
           /\ run.error.names = HostBranches
           /\ run_commits = {}

\* the URLs of Urls whose path has fewer than two non-empty segments:
\* /o/ (one), //o before the query (one), the empty path (none)
ShortUrls == { << "https:", "/", "/", "github.com", "/", "o", "/" >>,
               << "https:", "/", "/", "github.com", "/", "/", "o", "?", "tab", "/", "r" >>,
               << "https:", "/", "/", "github.com" >> }

\* C12 (invalid URL): for a URL whose path has fewer than two non-empty segments
\* the parser raises the invalid-URL error, and a call of analyze_repository with
\* it has failed with that error without any call to the host, any content
\* request or any analysis task started.
C12_InvalidUrl ==
    /\ \A url \in ShortUrls : parse_github_url(url).error = InvalidUrl
    /\ (run.id > 0 /\ run.url \in ShortUrls)
           => /\ run.phase = "failed"
              /\ run.error = Raised(InvalidUrl)
              /\ run.host_calls = << >>
              /\ run_commits = {}
              /\ \A t \in Subtasks : gpc[t] = "idle"

\* C12 witness: the second call of analyze_repository was given such a URL, after
\* a first call that went through
C12_Witness ==
    /\ run.id > 1
    /\ run.url \in ShortUrls
    /\ run.phase = "failed"
    /\ last_call >= 0

\* the directories whose listing the current run received (every result of
\* tracked_get_contents is in the cache, which the next run clears)
Listed == {d \in HostDirs : \E e \in content_cache : e.key.path = d}

\* entries of the given type in the listings received
Found(type) ==
    {p \in HostDirs \cup HostFiles :
        \E d \in Listed : \E i \in 1..Len(HostTree(d)) :
            HostTree(d)[i].path = p /\ HostTree(d)[i].type = type}

Items(seq) == {seq[i] : i \in 1..Len(seq)}

\* C13 (partial results of the walk): once the walk is over, whichever listings
\* failed, the manifest holds exactly the files and directories of the listings
\* that were received: each counted once, nothing from a directory whose listing
\* failed, and a failed listing has not made the run fail.
C13_PartialWalk ==
    (run.phase = "gather" /\ gpc["structure"] = "done")
        => /\ structure.total_files = Cardinality(Found("file"))
           /\ Items(structure.code_files) = {p \in Found("file") : is_code_file(p)}
           /\ Len(structure.code_files) = Cardinality(Items(structure.code_files))
           /\ Items(structure.directories) = Found("dir")
           /\ Len(structure.directories) = Cardinality(Found("dir"))

\* C13 witness: the listing of src failed while the root listing was received:
\* the walk is over with README.rst (before src) and setup.py (after it) counted
C13_Witness ==
    /\ run.phase = "gather"
    /\ gpc["structure"] = "done"
    /\ run.path = ""
    /\ Listed = {""}
    /\ structure.total_files = Cardinality({"README.rst", "setup.py"})

----------------------------------------------------------------------------
\* Claims about process_repository

\* C14 (embedding failure is per chunk): in a call of process_repository whose
\* store calls have all gone through, every chunk of the batches the loop has
\* passed, other than the chunks the embedding call fails on, has been upserted.
C14_EmbeddingFailurePerChunk ==
    \A t \in IxTasks :
        (iop[t].kind = "process" /\ ~iop[t].store_failed)
            => \A i \in 1..Len(iop[t].chunks) :
                   (i < iop[t].bi /\ iop[t].chunks[i].raw # iop[t].bad)
                       => \E u \in upserted : /\ u.raw = iop[t].chunks[i].raw
                                              /\ u.file = iop[t].chunks[i].file

----------------------------------------------------------------------------
\* Claims about the result of analyze_repository

\* the call got past branch verification and its three tasks have finished
RunEnded == run.phase \in {"done", "failed"} /\ run.verified # "no"

\* C15 (degraded mode): when the run found code files and the embedding step is
\* unavailable, analyze_repository still returns the repository metadata and the
\* result says that the embeddings were not generated.
C15_DegradedMode ==
    (RunEnded /\ structure.code_files # << >> /\ ~run.embed_ok)
        => /\ run.phase = "done"
           /\ run.info.returned
           /\ run.info.structure = structure
           /\ run.info.dependencies = dependencies
           /\ run.info.readme = readme
           /\ run.info.embedding_error

\* C16 (full pipeline): when every listing of the walk was received and code
\* files were found, analyze_repository returns a manifest that counts every file,
\* holds exactly the code files and has an import graph with an entry for each
\* code file with import statements.
C16_FullPipeline ==
    (RunEnded /\ run.path = "" /\ Listed = HostDirs /\ structure.code_files # << >>)
        => /\ run.phase = "done"
           /\ run.info.returned
           /\ run.info.structure.total_files = Cardinality(HostFiles)
           /\ Items(run.info.structure.code_files) = {p \in HostFiles : is_code_file(p)}
           /\ run.info.has_relationships
           /\ run.info.imports_graph = {p \in Importing : is_code_file(p)}

----------------------------------------------------------------------------
\* Claims about the content cache

\* the entries the cache holds for the key of the latest call
EntriesOfCall == {e \in content_cache : e.key = [path |-> tg.path, ref |-> tg.ref]}

\* C17 (cache expiry): a call of tracked_get_contents asks the host exactly when
\* the cache held no entry for its key younger than 3600 seconds; a hit leaves the
\* entry as it was, a fetch leaves one entry with the time of the fetch (an expired
\* one is gone), and a fetch that failed leaves no entry for the key.
C17_CacheExpiry ==
    tg.n > 0
        => /\ tg.requested <=> ~(tg.had_entry /\ tg.start - tg.entry_time < CACHE_TTL)
           /\ tg.outcome = "hit" <=> ~tg.requested
           /\ tg.outcome = "hit"
                  => \A e \in EntriesOfCall : e.time = tg.entry_time
           /\ tg.outcome = "fetched"
                  => /\ Cardinality(EntriesOfCall) = 1
                     /\ \A e \in EntriesOfCall : e.time >= tg.start
           /\ tg.outcome = "raised" => EntriesOfCall = {}

\* C17 witness: a call found an entry that had expired and its fetch failed
C17_Witness ==
    /\ tg.had_entry
    /\ tg.start - tg.entry_time >= CACHE_TTL
    /\ tg.outcome = "raised"

\* C18 (the cache key is the path and the resolved commit): a call that was
\* answered from the cache got content of the commit its ref resolves to at the
\* time of the call.
C18_CacheKeyResolvedSha ==
    tg.outcome = "hit" => tg.commit = tg.resolved

----------------------------------------------------------------------------
\* Claims about the README lookup

\* the candidates in the order of the lookup: two under the path of the URL when
\* it has one, then the four at the root
ReadmeCandidates(path) ==
    IF path = "" THEN readme_paths
    ELSE << JoinSlash(<< path, "README.md" >>), JoinSlash(<< path, "README.rst" >>) >>
         \o readme_paths

\* the first candidate the host has ("" when it has none)
FirstResolving(candidates) ==
    IF \E i \in 1..Len(candidates) : candidates[i] \in HostFiles
    THEN candidates[CHOOSE i \in 1..Len(candidates) :
                        /\ candidates[i] \in HostFiles
                        /\ \A j \in 1..(i - 1) : candidates[j] \notin HostFiles]
    ELSE ""

\* C19 (README lookup order): when _get_readme_content has returned, the README
\* it found is the first of the candidates <path>/README.md, <path>/README.rst,
\* README.md, README.rst, README, README.txt that resolves.
C19_ReadmeOrder ==
    (run.verified # "no" /\ (gpc["readme"] = "done" \/ RunEnded))
        => readme = FirstResolving(ReadmeCandidates(run.path))

----------------------------------------------------------------------------
\* Claims about the Python chunker

\* a Python file that consists of one short function: `def add(a, b):` and,
\* indented on the next line, `return a + b`
ShortFunction == << "d", NL, " ", "x" >>

\* C20 (single short function): for such a file process_file returns exactly one
\* chunk, of type function, named after the function, with an importance
\* between 0.7 and 0.9 inclusive; there is no imports chunk.
C20_SingleShortFunction ==
    (pf_state = "returned" /\ LowerStr(PathSuffix(file_path)) = DotPy
         /\ content = ShortFunction)
        => /\ Len(chunks) = 1
           /\ chunks[1].type = "function"
           /\ chunks[1].name = DefName
           /\ chunks[1].importance >= 70
           /\ chunks[1].importance <= 90

\* C24: two consecutive model requests that belong to different generate_response
\* calls are issued at least MIN_REQUEST_INTERVAL seconds apart, whatever the
\* outcome of either request.
C24_GenerationSpacing ==
    issued.gap = -1 \/ issued.gap >= CHAT_MIN_REQUEST_INTERVAL

\* C30: a generate_response call made with repo_info = None does not raise before
\* its first model request, whatever the calls before it were given.
C30_AbsentRepoInfoAccepted ==
    \A t \in ChatTasks :
        (issued.info[t] = NoInfoGiven /\ cresult[t] = "raised") => outcomes[t] # << >>

\* C21: every call to the repository host during an analysis run is made by a
\* caller that holds the request lock and has passed the spacing check: the calls
\* analyze_repository makes itself, and the content request of every task.
C21_EveryHostCallLimited ==
    /\ \A i \in 1..Len(run.host_calls) :
          run.host_calls[i].locked /\ run.host_calls[i].spaced
    /\ \A t \in Subtasks : gpc[t] = "inflight" => lock_holder = t

\* C22: a run that reached its content requests has resolved its branch (the
\* URL's, or the default branch when the URL names none) to a commit SHA, and has
\* made exactly one branch lookup, however many requests it has issued.
C22_BranchResolvedOnce ==
    (run.phase \in {"gather", "done"} /\ run_commits # {})
        => branch_lookups = 1 /\ run.captured # None

\* C28: the SHA stored on the service while a run issues its content requests was
\* resolved by that run; a run that resolved none has none stored.
C28_NoShaCarriedOver ==
    (run.phase = "gather" /\ \E t \in Subtasks : gpc[t] = "inflight")
        => current_commit_sha = run.captured

\* the sum of the counts of the histogram entries whose extension satisfies Keep
HistogramSum(ft, Keep(_)) ==
    LET RECURSIVE Sum(_)
        Sum(i) == IF i = 0 THEN 0
                  ELSE Sum(i - 1) + (IF Keep(ft[i].ext) THEN ft[i].n ELSE 0)
    IN  Sum(Len(ft))

\* C25 (walk accounting): at every point of the walk the histogram has one entry
\* per extension and its counts sum to total_files; code_files holds no path
\* twice, only files of the listed directories whose lower-cased extension is a
\* code extension, and as many of them as the histogram counts for those
\* extensions, so a file of another extension is in the histogram only; when the
\* walk is over total_files is the number of file entries of the listed directories.
C25_WalkAccounting ==
    /\ \A i, j \in 1..Len(structure.file_types) :
          structure.file_types[i].ext = structure.file_types[j].ext => i = j
    /\ HistogramSum(structure.file_types, LAMBDA ext : TRUE) = structure.total_files
    /\ Len(structure.code_files) = Cardinality(Items(structure.code_files))
    /\ Items(structure.code_files) \subseteq
          {p \in Found("file") : Lower(Suffix(p)) \in code_extensions}
    /\ Len(structure.code_files) =
          HistogramSum(structure.file_types, LAMBDA ext : Lower(ext) \in code_extensions)
    /\ (run.phase = "gather" /\ gpc["structure"] = "done")
          => structure.total_files = Cardinality(Found("file"))

\* C25 witness: the walk of the whole tree is over: four files counted under four
\* extensions, of which setup.py and src/utils.JS (upper-case suffix) are code files
C25_Witness ==
    /\ gpc["structure"] = "done"
    /\ structure.total_files = 4
    /\ Len(structure.file_types) = 4
    /\ structure.code_files = << "src/utils.JS", "setup.py" >>

\* C23 (no starvation): under the scheduling of the event loop, with every request
\* in flight coming back, a task suspended on the request lock eventually holds
\* the lock and issues its own request, whether the requests before it succeeded
\* or failed.
C23_NoStarvation ==
    \A t \in Subtasks : (gpc[t] = "waiting") ~> (gpc[t] = "inflight" /\ lock_holder = t)

\* C23 witness: two tasks are suspended on the lock behind a third whose request
\* is in flight
C23_Witness ==
    /\ Len(lock_waiters) = 2
    /\ \A i \in 1..2 : gpc[lock_waiters[i]] = "waiting"
    /\ lock_holder # NoTask /\ gpc[lock_holder] = "inflight"

----------------------------------------------------------------------------
\* Claims about the JavaScript / TypeScript chunker

\* process_file has returned the chunks of a language strategy for this file
ByStrategy ==
    /\ pf_state = "returned"
    /\ LowerStr(PathSuffix(file_path)) \in {DotPy, DotJs, DotJsx, DotTs, DotTsx}
    /\ ~FallsBack(file_path, content)
    /\ LowerStr(PathSuffix(file_path)) \in {DotTs, DotTsx} => ~TypescriptRaises(content)

\* C26 (imports chunk once and first): the list process_file returns for a .py,
\* .js, .jsx, .ts or .tsx file has at most one chunk of type imports, and that
\* chunk is the first of the list.
C26_ImportsOnceAndFirst ==
    ByStrategy => \A k \in 1..Len(chunks) : chunks[k].type = "imports" => k = 1

\* the numbers of the lines that match the class or the function pattern
BoundaryLines(lines) ==
    SelectSeq([k \in 1..Len(lines) |-> k],
              LAMBDA k : MatchesClass(lines[k]) \/ MatchesFunction(lines[k]))

\* C27 (chunk boundaries of the line scan): for a .js, .jsx, .ts or .tsx file the
\* chunks of the line scan are, in source order, one per boundary line: each runs
\* from its boundary line to the line before the next boundary line (the last one
\* to the end of the file), holds exactly those lines, and carries their 1-based
\* numbers as line_start and line_end.
C27_ChunkBoundaries ==
    (ByStrategy /\ LowerStr(PathSuffix(file_path)) # DotPy) =>
        LET lines == Split(content)
            starts == BoundaryLines(lines)
            scanned == SelectSeq(chunks, LAMBDA ch : ch.code_type = "javascript")
            Last(j) == IF j < Len(starts) THEN starts[j + 1] - 1 ELSE Len(lines)
        IN  /\ Len(scanned) = Len(starts)
            /\ \A j \in 1..Len(scanned) :
                  /\ scanned[j].line_start = starts[j]
                  /\ scanned[j].line_end = Last(j)
                  /\ scanned[j].content = Join(SubSeq(lines, starts[j], Last(j)))

----------------------------------------------------------------------------
\* Claims about get_related_contexts

\* the ids within k relationship links of element_id, following the links of
\* stored entries
RECURSIVE Within(_)
Within(k) ==
    IF k = 0 THEN {element_id}
    ELSE Within(k - 1) \cup
         {y \in ContextIds : \E x \in Within(k - 1) :
              context_cache[x] # Absent /\ \E i \in 1..Len(context_cache[x]) : context_cache[x][i] = y}

\* C29 (completeness): the list get_related_contexts returns holds, once each,
\* exactly the stored entries within max_depth relationship links of element_id.
C29_RelatedComplete ==
    cs_state = "returned" =>
        /\ Len(related) = Cardinality({related[i] : i \in 1..Len(related)})
        /\ {related[i] : i \in 1..Len(related)} =
              {x \in Within(max_depth) : context_cache[x] # Absent}

====
